---- MODULE Spec2Model ----
(***************************************************************************)
(* Cube permutation cipher (CubeUtils.py / CubeEncryptUtils_Python.py).    *)
(* A cube of order n holds 6*n*n symbols on six n x n faces; a key is a    *)
(* list of move notations; encryption replays the moves, decryption        *)
(* replays the toggled moves in reverse order.                             *)
(*                                                                         *)
(* Python lists are modelled as functions over 0..len-1 where the code     *)
(* indexes them (faces, rows) and as TLA+ sequences where it only appends  *)
(* and iterates (linear data, move lists).  Objects that the code mutates  *)
(* in place live in `heap`; a cube handle is an index into it.             *)
(***************************************************************************)
EXTENDS Integers, Sequences, FiniteSets, Bags, TLC

VARIABLES pc, order, moveDict, heap,
          cube, encryptedCube, decryptedCube, key, reverseMoves, outcome,
          hist, snaps,
          cube_data, linear_out, rebuilt,
          cubes, key_pool, selection_method, encrypted_cubes, used_key_indices,
          encoding_scheme, moves_list, encoded_sequences, decoded_sequences,
          base64_data, loaded_sequences,
          max_attempts_per_cube, results,
          key_data, output,
          cubeString

cipherVars == <<cube, encryptedCube, decryptedCube, key, reverseMoves, outcome>>
rotVars == <<hist, snaps>>
linearVars == <<cube_data, linear_out, rebuilt>>
poolVars == <<cubes, key_pool, selection_method, encrypted_cubes, used_key_indices>>

encoderVars == <<encoding_scheme, moves_list, encoded_sequences, decoded_sequences,
                 base64_data, loaded_sequences>>
bruteVars == <<max_attempts_per_cube, results>>
mainVars == <<key_data, output>>
textVars == <<cubeString>>
extraVars == <<encoderVars, bruteVars, mainVars, textVars>>

vars == <<pc, order, moveDict, heap, cipherVars, rotVars, linearVars, poolVars, extraVars>>

(***************************************************************************)
(* Bounds of the model.                                                    *)
(***************************************************************************)
MaxOrder == 2
MaxOps == 1
MaxMoves == 2
MaxExcess == 2
MaxCubes == 2

Orders == 1..MaxOrder

(***************************************************************************)
(* Symbols.  The filler alphabet of initCube doubles as the supply of      *)
(* distinct plaintext symbols; '' is the empty cell of a new face grid.    *)
(***************************************************************************)
FillerChars ==
    << "A","B","C","D","E","F","G","H","I","J","K","L","M",
       "N","O","P","Q","R","S","T","U","V","W","X","Y","Z",
       "a","b","c","d","e","f","g","h","i","j","k","l","m",
       "n","o","p","q","r","s","t","u","v","w","x","y","z",
       "0","1","2","3","4","5","6","7","8","9" >>

EmptyCell == ""

Range(s) == { s[i] : i \in DOMAIN s }

(***************************************************************************)
(* Cube.__init__ (no data) : six n x n grids of ''.                        *)
(***************************************************************************)
EmptyFaces(n) ==
    [face_idx \in 0..5 |-> [row \in 0..(n-1) |-> [col \in 0..(n-1) |-> EmptyCell]]]

(***************************************************************************)
(* Cube._linear_to_faces : the body of the enumerate loop for the item at  *)
(* position idx (0-based).  `face_idx >= 6` is the break: every later idx  *)
(* has face_idx >= 6 as well, so nothing is written from there on.  The    *)
(* write is guarded by row < n and col < n.                                *)
(***************************************************************************)
LinearStep(n, faces, linear_data, idx) ==
    LET face_idx == idx \div (n * n)
        pos_in_face == idx % (n * n)
        row == pos_in_face \div n
        col == pos_in_face % n
    IN  IF face_idx >= 6 THEN faces
        ELSE IF row < n /\ col < n
             THEN [faces EXCEPT ![face_idx][row][col] = linear_data[idx + 1]]
             ELSE faces

(***************************************************************************)
(* The iterations lo .. hi of the loop, in order: the first half of them,  *)
(* then the second half on what the first half left.                       *)
(***************************************************************************)
RECURSIVE LinearRange(_, _, _, _, _)
LinearRange(n, faces, linear_data, lo, hi) ==
    IF lo > hi THEN faces
    ELSE IF lo = hi THEN LinearStep(n, faces, linear_data, lo)
    ELSE LET mid == (lo + hi) \div 2
             second == { LinearRange(n, first, linear_data, mid + 1, hi) :
                           first \in { LinearRange(n, faces, linear_data, lo, mid) } }
         IN  CHOOSE after \in second : TRUE

(***************************************************************************)
(* Cube._linear_to_faces : the enumerate loop from item idx to the end of  *)
(* the data.                                                               *)
(***************************************************************************)
LinearLoop(n, faces, linear_data, idx) ==
    LinearRange(n, faces, linear_data, idx, Len(linear_data) - 1)

\* Variant of _linear_to_faces that swaps row and column when it writes.
_linear_to_faces_transposed(n, linear_data) ==
    LET f == LinearLoop(n, EmptyFaces(n), linear_data, 0)
    IN  [face_idx \in 0..5 |-> [row \in 0..(n-1) |-> [col \in 0..(n-1) |->
            f[face_idx][col][row]]]]

\* Variant of _linear_to_faces that keeps the last 6*n*n symbols of a longer
\* input instead of the first.
_linear_to_faces_keep_tail(n, linear_data) ==
    LET cells == 6 * n * n
        len == Len(linear_data)
    IN  LinearLoop(n, EmptyFaces(n),
            IF len > cells THEN SubSeq(linear_data, len - cells + 1, len)
            ELSE linear_data, 0)

_linear_to_faces(n, linear_data) == LinearLoop(n, EmptyFaces(n), linear_data, 0)

(***************************************************************************)
(* Cube.__init__ : `if cube_data:` is false for None and for an empty      *)
(* list; both leave six grids of ''.                                       *)
(***************************************************************************)
NewCube(n, data) ==
    [ order |-> n,
      faces |-> IF Len(data) > 0 THEN _linear_to_faces(n, data)
                ELSE EmptyFaces(n) ]

(***************************************************************************)
(* Cube._faces_to_linear : three nested loops appending one cell each.     *)
(***************************************************************************)
RECURSIVE ColLoop(_, _, _, _)
ColLoop(self, face_idx, row, col) ==
    IF col >= self.order THEN << >>
    ELSE <<self.faces[face_idx][row][col]>> \o ColLoop(self, face_idx, row, col + 1)

RECURSIVE RowLoop(_, _, _)
RowLoop(self, face_idx, row) ==
    IF row >= self.order THEN << >>
    ELSE ColLoop(self, face_idx, row, 0) \o RowLoop(self, face_idx, row + 1)

RECURSIVE FaceLoop(_, _)
FaceLoop(self, face_idx) ==
    IF face_idx >= 6 THEN << >>
    ELSE RowLoop(self, face_idx, 0) \o FaceLoop(self, face_idx + 1)

\* Variant of _faces_to_linear that walks each face column by column.
_faces_to_linear_by_columns(self) ==
    FaceLoop([self EXCEPT !.faces =
        [face_idx \in 0..5 |-> [row \in 0..(self.order-1) |-> [col \in 0..(self.order-1) |->
            self.faces[face_idx][col][row]]]]], 0)

_faces_to_linear(self) == FaceLoop(self, 0)

(***************************************************************************)
(* Cube._rotate_face : copy the face, fill a fresh grid of '' with the     *)
(* double loop (r outer, c inner; iteration k is r = k div n, c = k mod n) *)
(* and install the fresh grid as faces[face_idx].                          *)
(***************************************************************************)
RECURSIVE SpinLoop(_, _, _, _, _)
SpinLoop(n, face, new_face, direction, k) ==
    IF k >= n * n THEN new_face
    ELSE LET r == k \div n
             c == k % n
         IN  SpinLoop(n, face,
                 IF direction = 1
                 THEN [new_face EXCEPT ![c][n - 1 - r] = face[r][c]]
                 ELSE [new_face EXCEPT ![n - 1 - c][r] = face[r][c]],
                 direction, k + 1)

\* Variant of _rotate_face that turns clockwise whatever the direction.
_rotate_face_one_way(self, face_idx, direction) ==
    LET n == self.order IN
    IF face_idx < 0 \/ face_idx >= 6 THEN self
    ELSE LET face == self.faces[face_idx]
             new_face == [row \in 0..(n-1) |-> [col \in 0..(n-1) |-> EmptyCell]]
         IN  [self EXCEPT !.faces[face_idx] = SpinLoop(n, face, new_face, 1, 0)]

\* Variant of _rotate_face whose double loop misses its first iteration.
_rotate_face_skip_first(self, face_idx, direction) ==
    LET n == self.order IN
    IF face_idx < 0 \/ face_idx >= 6 THEN self
    ELSE LET face == self.faces[face_idx]
             new_face == [row \in 0..(n-1) |-> [col \in 0..(n-1) |-> EmptyCell]]
         IN  [self EXCEPT !.faces[face_idx] = SpinLoop(n, face, new_face, direction, 1)]

\* Variant of _rotate_face that works on the face itself: the double loop
\* reads cells it has already overwritten.
_rotate_face_in_place(self, face_idx, direction) ==
    LET n == self.order
        spin[k \in 0..(n * n)] ==
            IF k = 0 THEN self.faces[face_idx]
            ELSE LET r == (k - 1) \div n
                     c == (k - 1) % n
                     g == spin[k - 1]
                 IN  IF direction = 1 THEN [g EXCEPT ![c][n - 1 - r] = g[r][c]]
                                      ELSE [g EXCEPT ![n - 1 - c][r] = g[r][c]]
    IN  IF face_idx < 0 \/ face_idx >= 6 THEN self
        ELSE [self EXCEPT !.faces[face_idx] = spin[n * n]]

_rotate_face(self, face_idx, direction) ==
    LET n == self.order IN
    IF face_idx < 0 \/ face_idx >= 6 THEN self
    ELSE LET face == self.faces[face_idx]
             new_face == [row \in 0..(n-1) |-> [col \in 0..(n-1) |-> EmptyCell]]
         IN  [self EXCEPT !.faces[face_idx] = SpinLoop(n, face, new_face, direction, 0)]

(***************************************************************************)
(* Cube.rotate_LR : four loops over r, then the side-face spin.  Each loop *)
(* writes one column of one face and reads a column of another face, so a  *)
(* loop is one update of the written face from the state the previous loop *)
(* left (f0 -> f1 -> f2 -> f3 -> f4); temp is read from the state at entry.*)
(***************************************************************************)
\* Variant of rotate_LR whose side-face test is swapped: layer 0 spins the
\* Right face and layer n-1 the Left face.
rotate_LR_spin_swapped(self, which, direction) ==
    LET n == self.order
        f0 == self.faces
        R == 0..(n-1)
    IN
    IF which < 0 \/ which >= n THEN self
    ELSE IF direction = 1 THEN
        LET temp == [r \in R |-> f0[0][r][which]]
            f1 == [f0 EXCEPT ![0] = [r \in R |->
                      [f0[0][r] EXCEPT ![which] = f0[3][n-1-r][n-1-which]]]]
            f2 == [f1 EXCEPT ![3] = [x \in R |->
                      [f1[3][x] EXCEPT ![n-1-which] = f1[2][n-1-x][n-1-which]]]]
            f3 == [f2 EXCEPT ![2] = [r \in R |->
                      [f2[2][r] EXCEPT ![n-1-which] = f2[1][n-1-r][which]]]]
            f4 == [f3 EXCEPT ![1] = [r \in R |->
                      [f3[1][r] EXCEPT ![which] = temp[r]]]]
            turned == [self EXCEPT !.faces = f4]
        IN  IF which = 0 THEN _rotate_face(turned, 5, 1)
            ELSE IF which = n - 1 THEN _rotate_face(turned, 4, 1)
            ELSE turned
    ELSE
        LET temp == [r \in R |-> f0[0][r][which]]
            f1 == [f0 EXCEPT ![0] = [r \in R |->
                      [f0[0][r] EXCEPT ![which] = f0[1][r][which]]]]
            f2 == [f1 EXCEPT ![1] = [r \in R |->
                      [f1[1][r] EXCEPT ![which] = f1[2][n-1-r][n-1-which]]]]
            f3 == [f2 EXCEPT ![2] = [x \in R |->
                      [f2[2][x] EXCEPT ![n-1-which] = f2[3][n-1-x][n-1-which]]]]
            f4 == [f3 EXCEPT ![3] = [r \in R |->
                      [f3[3][r] EXCEPT ![n-1-which] = temp[n-1-r]]]]
            turned == [self EXCEPT !.faces = f4]
        IN  IF which = 0 THEN _rotate_face(turned, 5, -1)
            ELSE IF which = n - 1 THEN _rotate_face(turned, 4, -1)
            ELSE turned

\* Variant of rotate_LR without temp: the last loop of either direction
\* reads the Front column after the first loop has overwritten it.
rotate_LR_read_back(self, which, direction) ==
    LET n == self.order
        f0 == self.faces
        R == 0..(n-1)
    IN
    IF which < 0 \/ which >= n THEN self
    ELSE IF direction = 1 THEN
        LET f1 == [f0 EXCEPT ![0] = [r \in R |->
                      [f0[0][r] EXCEPT ![which] = f0[3][n-1-r][n-1-which]]]]
            f2 == [f1 EXCEPT ![3] = [x \in R |->
                      [f1[3][x] EXCEPT ![n-1-which] = f1[2][n-1-x][n-1-which]]]]
            f3 == [f2 EXCEPT ![2] = [r \in R |->
                      [f2[2][r] EXCEPT ![n-1-which] = f2[1][n-1-r][which]]]]
            f4 == [f3 EXCEPT ![1] = [r \in R |->
                      [f3[1][r] EXCEPT ![which] = f3[0][r][which]]]]
            turned == [self EXCEPT !.faces = f4]
        IN  IF which = 0 THEN _rotate_face(turned, 4, 1)
            ELSE IF which = n - 1 THEN _rotate_face(turned, 5, 1)
            ELSE turned
    ELSE
        LET f1 == [f0 EXCEPT ![0] = [r \in R |->
                      [f0[0][r] EXCEPT ![which] = f0[1][r][which]]]]
            f2 == [f1 EXCEPT ![1] = [r \in R |->
                      [f1[1][r] EXCEPT ![which] = f1[2][n-1-r][n-1-which]]]]
            f3 == [f2 EXCEPT ![2] = [x \in R |->
                      [f2[2][x] EXCEPT ![n-1-which] = f2[3][n-1-x][n-1-which]]]]
            f4 == [f3 EXCEPT ![3] = [r \in R |->
                      [f3[3][r] EXCEPT ![n-1-which] = f3[0][n-1-r][which]]]]
            turned == [self EXCEPT !.faces = f4]
        IN  IF which = 0 THEN _rotate_face(turned, 4, -1)
            ELSE IF which = n - 1 THEN _rotate_face(turned, 5, -1)
            ELSE turned

rotate_LR(self, which, direction) ==
    LET n == self.order
        f0 == self.faces
        R == 0..(n-1)
    IN
    IF which < 0 \/ which >= n THEN self
    ELSE IF direction = 1 THEN
        LET temp == [r \in R |-> f0[0][r][which]]
            \* faces[0][r][which] = faces[3][n-1-r][n-1-which]
            f1 == [f0 EXCEPT ![0] = [r \in R |->
                      [f0[0][r] EXCEPT ![which] = f0[3][n-1-r][n-1-which]]]]
            \* faces[3][n-1-r][n-1-which] = faces[2][r][n-1-which]
            f2 == [f1 EXCEPT ![3] = [x \in R |->
                      [f1[3][x] EXCEPT ![n-1-which] = f1[2][n-1-x][n-1-which]]]]
            \* faces[2][r][n-1-which] = faces[1][n-1-r][which]
            f3 == [f2 EXCEPT ![2] = [r \in R |->
                      [f2[2][r] EXCEPT ![n-1-which] = f2[1][n-1-r][which]]]]
            \* faces[1][r][which] = temp[r]
            f4 == [f3 EXCEPT ![1] = [r \in R |->
                      [f3[1][r] EXCEPT ![which] = temp[r]]]]
            turned == [self EXCEPT !.faces = f4]
        IN  IF which = 0 THEN _rotate_face(turned, 4, 1)
            ELSE IF which = n - 1 THEN _rotate_face(turned, 5, 1)
            ELSE turned
    ELSE
        LET temp == [r \in R |-> f0[0][r][which]]
            \* faces[0][r][which] = faces[1][r][which]
            f1 == [f0 EXCEPT ![0] = [r \in R |->
                      [f0[0][r] EXCEPT ![which] = f0[1][r][which]]]]
            \* faces[1][r][which] = faces[2][n-1-r][n-1-which]
            f2 == [f1 EXCEPT ![1] = [r \in R |->
                      [f1[1][r] EXCEPT ![which] = f1[2][n-1-r][n-1-which]]]]
            \* faces[2][n-1-r][n-1-which] = faces[3][r][n-1-which]
            f3 == [f2 EXCEPT ![2] = [x \in R |->
                      [f2[2][x] EXCEPT ![n-1-which] = f2[3][n-1-x][n-1-which]]]]
            \* faces[3][r][n-1-which] = temp[n-1-r]
            f4 == [f3 EXCEPT ![3] = [r \in R |->
                      [f3[3][r] EXCEPT ![n-1-which] = temp[n-1-r]]]]
            turned == [self EXCEPT !.faces = f4]
        IN  IF which = 0 THEN _rotate_face(turned, 4, -1)
            ELSE IF which = n - 1 THEN _rotate_face(turned, 5, -1)
            ELSE turned

(***************************************************************************)
(* Cube.rotate_UD : four loops over c on row `which`, then the spin of Top *)
(* (which = 0) or Down (which = n-1).                                      *)
(***************************************************************************)
\* Variant of rotate_UD that reads the Back row mirrored, as rotate_LR reads
\* the Back column.
rotate_UD_mirrored(self, which, direction) ==
    LET n == self.order
        f0 == self.faces
        Mirror(row) == [c \in 0..(n-1) |-> row[n-1-c]]
    IN
    IF which < 0 \/ which >= n THEN self
    ELSE IF direction = 1 THEN
        LET temp == f0[0][which]
            f1 == [f0 EXCEPT ![0][which] = f0[5][which]]
            f2 == [f1 EXCEPT ![5][which] = Mirror(f1[2][which])]
            f3 == [f2 EXCEPT ![2][which] = Mirror(f2[4][which])]
            f4 == [f3 EXCEPT ![4][which] = temp]
            turned == [self EXCEPT !.faces = f4]
        IN  IF which = 0 THEN _rotate_face(turned, 1, 1)
            ELSE IF which = n - 1 THEN _rotate_face(turned, 3, 1)
            ELSE turned
    ELSE
        LET temp == f0[0][which]
            f1 == [f0 EXCEPT ![0][which] = f0[4][which]]
            f2 == [f1 EXCEPT ![4][which] = Mirror(f1[2][which])]
            f3 == [f2 EXCEPT ![2][which] = Mirror(f2[5][which])]
            f4 == [f3 EXCEPT ![5][which] = temp]
            turned == [self EXCEPT !.faces = f4]
        IN  IF which = 0 THEN _rotate_face(turned, 1, -1)
            ELSE IF which = n - 1 THEN _rotate_face(turned, 3, -1)
            ELSE turned

rotate_UD(self, which, direction) ==
    LET n == self.order
        f0 == self.faces
    IN
    IF which < 0 \/ which >= n THEN self
    ELSE IF direction = 1 THEN
        LET temp == f0[0][which]
            \* faces[0][which][c] = faces[5][which][c]
            f1 == [f0 EXCEPT ![0][which] = f0[5][which]]
            \* faces[5][which][c] = faces[2][which][c]
            f2 == [f1 EXCEPT ![5][which] = f1[2][which]]
            \* faces[2][which][c] = faces[4][which][c]
            f3 == [f2 EXCEPT ![2][which] = f2[4][which]]
            \* faces[4][which][c] = temp[c]
            f4 == [f3 EXCEPT ![4][which] = temp]
            turned == [self EXCEPT !.faces = f4]
        IN  IF which = 0 THEN _rotate_face(turned, 1, 1)
            ELSE IF which = n - 1 THEN _rotate_face(turned, 3, 1)
            ELSE turned
    ELSE
        LET temp == f0[0][which]
            \* faces[0][which][c] = faces[4][which][c]
            f1 == [f0 EXCEPT ![0][which] = f0[4][which]]
            \* faces[4][which][c] = faces[2][which][c]
            f2 == [f1 EXCEPT ![4][which] = f1[2][which]]
            \* faces[2][which][c] = faces[5][which][c]
            f3 == [f2 EXCEPT ![2][which] = f2[5][which]]
            \* faces[5][which][c] = temp[c]
            f4 == [f3 EXCEPT ![5][which] = temp]
            turned == [self EXCEPT !.faces = f4]
        IN  IF which = 0 THEN _rotate_face(turned, 1, -1)
            ELSE IF which = n - 1 THEN _rotate_face(turned, 3, -1)
            ELSE turned

(***************************************************************************)
(* moveDict as the module leaves it at import (CubeUtils.py) and           *)
(* generate_moves(order), which assigns eight entries per i in             *)
(* range(order); a dict assignment overrides an existing key.              *)
(***************************************************************************)
DictSet(d, k, v) == (k :> v) @@ d

InitialMoveDict ==
    [ m \in {"L1", "L1'", "R1", "R1'", "U1", "U1'", "D1", "D1'"} |->
        CASE m = "L1"  -> <<0, 1>>  [] m = "L1'" -> <<0, -1>>
          [] m = "R1"  -> <<1, 1>>  [] m = "R1'" -> <<1, -1>>
          [] m = "U1"  -> <<2, 1>>  [] m = "U1'" -> <<2, -1>>
          [] m = "D1"  -> <<3, 1>>  [] m = "D1'" -> <<3, -1>> ]

RECURSIVE GenLoop(_, _, _)
GenLoop(d, n, i) ==
    IF i >= n THEN d
    ELSE LET layer == i * 2
             k  == ToString(i + 1)
             d1 == DictSet(d,  "L" \o k,         <<layer, 1>>)
             d2 == DictSet(d1, "L" \o k \o "'",  <<layer, -1>>)
             d3 == DictSet(d2, "R" \o k,         <<layer + 1, 1>>)
             d4 == DictSet(d3, "R" \o k \o "'",  <<layer + 1, -1>>)
             d5 == DictSet(d4, "U" \o k,         <<layer + 2, 1>>)
             d6 == DictSet(d5, "U" \o k \o "'",  <<layer + 2, -1>>)
             d7 == DictSet(d6, "D" \o k,         <<layer + 3, 1>>)
             d8 == DictSet(d7, "D" \o k \o "'",  <<layer + 3, -1>>)
         IN  GenLoop(d8, n, i + 1)

\* Variant of generate_moves whose loop stops one layer early.
generate_moves_short(d, n) == GenLoop(d, n - 1, 0)

generate_moves(d, n) == GenLoop(d, n, 0)

(***************************************************************************)
(* applyMoves : for each move, look it up; a move that is not a key of     *)
(* moveDict has no branch and the loop goes on.  Even layers go to         *)
(* rotate_LR, odd layers to rotate_UD, both with which = layer // 2.       *)
(* The function has no raise statement: it always returns the cube.        *)
(* EngineCall is the method call one move leads to (op "skip": none).      *)
(***************************************************************************)
EngineCall(d, move) ==
    IF move \in DOMAIN d
    THEN LET layer == d[move][1]
             direction == d[move][2]
             which == layer \div 2
         IN  [ op |-> IF layer % 2 = 0 THEN "rotate_LR" ELSE "rotate_UD",
               a |-> which, d |-> direction, move |-> move ]
    ELSE [ op |-> "skip", a |-> 0, d |-> 0, move |-> move ]

ApplyOne(d, self, move) ==
    LET c == EngineCall(d, move)
    IN  IF c.op = "rotate_LR" THEN rotate_LR(self, c.a, c.d)
        ELSE IF c.op = "rotate_UD" THEN rotate_UD(self, c.a, c.d)
        ELSE self

applyMoves(d, self, moves) ==
    LET after[i \in 0..Len(moves)] ==
            IF i = 0 THEN self ELSE ApplyOne(d, after[i - 1], moves[i])
    IN  after[Len(moves)]

applyMovesOutcome(d, self, moves) == "returned"

(***************************************************************************)
(* decryptCube, first half: the reversed, toggled move list.               *)
(* move.endswith("'") / move[:-1] / move + "'".                            *)
(***************************************************************************)
endswithPrime(move) == Len(move) >= 1 /\ SubSeq(move, Len(move), Len(move)) = "'"

\* Variant of toggle that removes a trailing ' but never appends one.
toggle_strip_only(move) ==
    IF endswithPrime(move) THEN SubSeq(move, 1, Len(move) - 1)
    ELSE move

toggle(move) ==
    IF endswithPrime(move) THEN SubSeq(move, 1, Len(move) - 1)
    ELSE move \o "'"

\* Variant of invert that reverses the order and leaves every move as it is.
invert_reverse_only(moves) ==
    [ i \in 1..Len(moves) |-> moves[Len(moves) + 1 - i] ]

\* Variant of invert that toggles the moves without reversing their order.
invert_in_order(moves) ==
    [ i \in 1..Len(moves) |-> toggle(moves[i]) ]

invert(moves) ==
    [ i \in 1..Len(moves) |-> toggle(moves[Len(moves) + 1 - i]) ]

(***************************************************************************)
(* copy.deepcopy(cube) : a new object holding a copy of the faces.         *)
(* The result is the grown heap and the handle of the new object.          *)
(***************************************************************************)
\* In-place update of the object behind a handle.
HeapSet(h, ref, obj) == [ i \in DOMAIN h |-> IF i = ref THEN obj ELSE h[i] ]

\* Variant of deepcopy that hands back the same object.
deepcopy_alias(h, ref) == [ heap |-> h, ref |-> ref ]

deepcopy(h, ref) == [ heap |-> Append(h, h[ref]), ref |-> Len(h) + 1 ]

(***************************************************************************)
(* encryptCube(cube, moves) : applyMoves(copy.deepcopy(cube), moves).      *)
(* decryptCube(cube, moves) : applyMoves(copy.deepcopy(cube), reverseMoves)*)
(* Both give the grown heap and the handle of the cube they return.        *)
(***************************************************************************)
encryptCube(d, h, ref, moves) ==
    LET c == deepcopy(h, ref)
    IN  [ heap |-> HeapSet(c.heap, c.ref, applyMoves(d, c.heap[c.ref], moves)),
          ref  |-> c.ref ]

decryptCube(d, h, ref, moves) ==
    LET reverseMoves_ == invert(moves)
        c == deepcopy(h, ref)
    IN  [ heap |-> HeapSet(c.heap, c.ref, applyMoves(d, c.heap[c.ref], reverseMoves_)),
          ref  |-> c.ref ]

(***************************************************************************)
(* Cube.get_state_hash : int(md5(''.join(cube)).hexdigest()[:8], 16) is a  *)
(* number fixed by the symbols in linear order.  MD5 itself is not         *)
(* computed here: a positional polynomial over the symbols' places in the  *)
(* alphabet, kept below 2^16, stands for the digest prefix.                *)
(***************************************************************************)
CharCode(ch) ==
    IF ch \in Range(FillerChars)
    THEN CHOOSE i \in DOMAIN FillerChars : FillerChars[i] = ch
    ELSE 0

get_state_hash(self) ==
    LET state_string == _faces_to_linear(self)
        h[i \in 0..Len(state_string)] ==
            IF i = 0 THEN 7
            ELSE (h[i - 1] * 31 + CharCode(state_string[i])) % 65536
    IN  h[Len(state_string)]

(***************************************************************************)
(* Plaintext cubes: all cells distinct, or three symbols repeating.        *)
(***************************************************************************)
CellCount(n) == 6 * n * n

PlainTexts(n) ==
    { SubSeq(FillerChars, 1, CellCount(n)),
      [ i \in 1..CellCount(n) |-> FillerChars[((i - 1) % 3) + 1] ] }

(***************************************************************************)
(* main: generate_moves(order) runs before anything touches a cube.        *)
(***************************************************************************)
GenerateMoves ==
    /\ pc = "start"
    /\ moveDict' = generate_moves(moveDict, order)
    /\ pc' = "ready"
    /\ UNCHANGED <<extraVars, order, heap, cipherVars, rotVars, linearVars, poolVars>>

(***************************************************************************)
(* Rotation engine: one cube, rotated in place, with the history of the    *)
(* calls (hist) and the cube before each call (snaps).  Up to MaxOps calls *)
(* of any kind, then possibly the last rotation taken back.                *)
(***************************************************************************)
CipherIdle ==
    /\ cube = 0 /\ encryptedCube = 0 /\ decryptedCube = 0
    /\ key = << >> /\ reverseMoves = << >> /\ outcome = "none"

LinearIdle == cube_data = << >> /\ linear_out = << >> /\ rebuilt = 0

PoolIdle ==
    /\ cubes = << >> /\ key_pool = << >> /\ selection_method = "none"
    /\ encrypted_cubes = << >> /\ used_key_indices = << >>

EncoderIdle ==
    /\ encoding_scheme = "none" /\ moves_list = << >>
    /\ encoded_sequences = << >> /\ decoded_sequences = << >>
    /\ base64_data = << >> /\ loaded_sequences = << >>

BruteIdle == max_attempts_per_cube = 0 /\ results = << >>

MainIdle == key_data = << >> /\ output = << >>

TextIdle == cubeString = << >>

ExtraIdle == EncoderIdle /\ BruteIdle /\ MainIdle /\ TextIdle

Call(op, a, d, move) == [ op |-> op, a |-> a, d |-> d, move |-> move ]

Init ==
    /\ pc = "start"
    /\ order \in Orders
    /\ moveDict = InitialMoveDict
    /\ \E data \in PlainTexts(order) : heap = << NewCube(order, data) >>
    /\ cube = 1
    /\ encryptedCube = 0
    /\ decryptedCube = 0
    /\ key = << >>
    /\ reverseMoves = << >>
    /\ outcome = "none"
    /\ hist = << >>
    /\ snaps = << >>
    /\ LinearIdle
    /\ PoolIdle
    /\ ExtraIdle

Record(c) ==
    /\ hist' = Append(hist, c)
    /\ snaps' = Append(snaps, heap[cube])
    /\ UNCHANGED <<extraVars, pc, order, moveDict, cipherVars, linearVars, poolVars>>

\* Variant of RotateLR in which a layer index outside 0..n-1 wraps around.
RotateLR_wrapped(which, direction) ==
    /\ pc = "ready" /\ Len(hist) < MaxOps
    /\ heap' = HeapSet(heap, cube, rotate_LR(heap[cube], which % order, direction))
    /\ Record(Call("rotate_LR", which, direction, ""))

RotateLR(which, direction) ==
    /\ pc = "ready" /\ Len(hist) < MaxOps
    /\ heap' = HeapSet(heap, cube, rotate_LR(heap[cube], which, direction))
    /\ Record(Call("rotate_LR", which, direction, ""))

RotateUD(which, direction) ==
    /\ pc = "ready" /\ Len(hist) < MaxOps
    /\ heap' = HeapSet(heap, cube, rotate_UD(heap[cube], which, direction))
    /\ Record(Call("rotate_UD", which, direction, ""))

RotateFace(face_idx, direction) ==
    /\ pc = "ready" /\ Len(hist) < MaxOps
    /\ heap' = HeapSet(heap, cube, _rotate_face(heap[cube], face_idx, direction))
    /\ Record(Call("_rotate_face", face_idx, direction, ""))

ApplyMove(move) ==
    /\ pc = "ready" /\ Len(hist) < MaxOps
    /\ heap' = HeapSet(heap, cube, applyMoves(moveDict, heap[cube], <<move>>))
    /\ Record(Call("applyMoves", 0, 0, move))

\* The caller takes back the rotation it made last: the same method on the
\* same layer or face, in the opposite direction.
RotateBack ==
    /\ pc = "ready" /\ hist # << >>
    /\ LET last == hist[Len(hist)]
       IN  /\ last.op \in {"rotate_LR", "rotate_UD", "_rotate_face"}
           /\ heap' = HeapSet(heap, cube,
                 IF last.op = "rotate_LR" THEN rotate_LR(heap[cube], last.a, -(last.d))
                 ELSE IF last.op = "rotate_UD" THEN rotate_UD(heap[cube], last.a, -(last.d))
                 ELSE _rotate_face(heap[cube], last.a, -(last.d)))
           /\ hist' = Append(hist, Call(last.op, last.a, -(last.d), ""))
    /\ snaps' = Append(snaps, heap[cube])
    /\ pc' = "undone"
    /\ UNCHANGED <<extraVars, order, moveDict, cipherVars, linearVars, poolVars>>

NextRot ==
    \/ GenerateMoves
    \/ \E which \in -1..order, direction \in {1, -1} : RotateLR(which, direction)
    \/ \E which \in -1..order, direction \in {1, -1} : RotateUD(which, direction)
    \/ \E face_idx \in -1..6, direction \in {1, -1} : RotateFace(face_idx, direction)
    \/ \E move \in DOMAIN moveDict : ApplyMove(move)
    \/ RotateBack

SpecRot == Init /\ [][NextRot]_vars

(***************************************************************************)
(* The cube after the k-th recorded call, and before it.                   *)
(***************************************************************************)
Before(k) == snaps[k]
After(k) == IF k = Len(hist) THEN heap[cube] ELSE snaps[k + 1]

BagOfSeq(s) == [ x \in Range(s) |-> Cardinality({ i \in DOMAIN s : s[i] = x }) ]

IsUndo(a, b) ==
    /\ a.op \in {"rotate_LR", "rotate_UD", "_rotate_face"}
    /\ b.op = a.op /\ b.a = a.a /\ b.d = -(a.d)

\* C2: a rotation followed by the same rotation in the opposite direction
\* (same layer or face index, any index in or out of range) leaves every
\* cell of all six faces as it was before the pair.
C2_RotationUndo ==
    \A k \in 1..(Len(hist) - 1) :
        IsUndo(hist[k], hist[k + 1]) => After(k + 1) = Before(k)

C2_Witness ==
    \E k \in 1..(Len(hist) - 1) :
        /\ IsUndo(hist[k], hist[k + 1])
        /\ hist[k].op = "rotate_LR" /\ hist[k].a = 0
        /\ After(k) # Before(k)
        /\ After(k + 1) = Before(k)

\* C3: every single table move only permutes the symbols: the linear form
\* keeps its length 6*n*n and its multiset of symbols.
C3_MovePermutes ==
    \A k \in 1..Len(hist) :
        hist[k].op = "applyMoves" =>
            /\ Len(_faces_to_linear(After(k))) = CellCount(order)
            /\ BagOfSeq(_faces_to_linear(After(k))) = BagOfSeq(_faces_to_linear(Before(k)))

C3_Witness ==
    \E k \in 1..Len(hist) :
        /\ hist[k].op = "applyMoves"
        /\ After(k) # Before(k)
        /\ BagOfSeq(_faces_to_linear(After(k))) = BagOfSeq(_faces_to_linear(Before(k)))

\* C19: rotate_LR and rotate_UD called with a layer index below 0 or at
\* least n return normally and leave every cell of all six faces as it was.
C19_OutOfRangeNoOp ==
    \A k \in 1..Len(hist) :
        ( /\ hist[k].op \in {"rotate_LR", "rotate_UD"}
          /\ (hist[k].a < 0 \/ hist[k].a >= order) )
            => After(k) = Before(k)

C19_Witness ==
    /\ Len(hist) = 1
    /\ hist[1].op = "rotate_LR" /\ hist[1].a = -1 /\ hist[1].d = 1
    /\ order = MaxOrder
    /\ heap[cube] = snaps[1]
    /\ rotate_LR(heap[cube], 0, 1) # heap[cube]

\* The family letter of a notation.
Family(move) == SubSeq(move, 1, 1)

\* C25: applyMoves sends every L and R move of the table to rotate_LR and
\* every U and D move to rotate_UD.
C25_FamilySelectsRotation ==
    \A k \in 1..Len(hist) :
        hist[k].op = "applyMoves" =>
            LET c == EngineCall(moveDict, hist[k].move)
            IN  /\ Family(hist[k].move) \in {"L", "R"} => c.op = "rotate_LR"
                /\ Family(hist[k].move) \in {"U", "D"} => c.op = "rotate_UD"

\* C26: for every move of the table generated for order n, the layer index
\* that applyMoves passes to the engine on an order-n cube is in 0..n-1.
C26_TableMoveInRange ==
    \A k \in 1..Len(hist) :
        hist[k].op = "applyMoves" =>
            LET c == EngineCall(moveDict, hist[k].move)
            IN  c.op \in {"rotate_LR", "rotate_UD"} /\ c.a >= 0 /\ c.a < order

(***************************************************************************)
(* The Cube class used on its own: a cube of any order up to MaxOrder + 1  *)
(* (so that interior layers exist) is built from data, one method is       *)
(* called on it, and the caller then repeats that same call, up to         *)
(* MaxTurns calls in all.  moveDict is as the import leaves it.            *)
(***************************************************************************)
MaxTurns == 4

TurnOrders == 1..(MaxOrder + 1)

\* Cube data: the alphabet in order (all cells distinct up to order 3), or
\* three symbols repeating.
TurnTexts(n) ==
    { [ i \in 1..CellCount(n) |-> FillerChars[((i - 1) % Len(FillerChars)) + 1] ],
      [ i \in 1..CellCount(n) |-> FillerChars[((i - 1) % 3) + 1] ] }

InitTurn ==
    /\ pc = "ready"
    /\ order \in TurnOrders
    /\ moveDict = InitialMoveDict
    /\ \E data \in TurnTexts(order) : heap = << NewCube(order, data) >>
    /\ cube = 1
    /\ encryptedCube = 0
    /\ decryptedCube = 0
    /\ key = << >>
    /\ reverseMoves = << >>
    /\ outcome = "none"
    /\ hist = << >>
    /\ snaps = << >>
    /\ LinearIdle
    /\ PoolIdle
    /\ ExtraIdle

\* The caller makes the call it made last once more.
RotateAgain ==
    /\ pc = "ready" /\ hist # << >> /\ Len(hist) < MaxTurns
    /\ LET last == hist[Len(hist)]
       IN  /\ last.op \in {"rotate_LR", "rotate_UD", "_rotate_face"}
           /\ heap' = HeapSet(heap, cube,
                 IF last.op = "rotate_LR" THEN rotate_LR(heap[cube], last.a, last.d)
                 ELSE IF last.op = "rotate_UD" THEN rotate_UD(heap[cube], last.a, last.d)
                 ELSE _rotate_face(heap[cube], last.a, last.d))
           /\ Record(last)

NextTurn ==
    \/ \E which \in -1..order, direction \in {1, -1} : RotateLR(which, direction)
    \/ \E which \in -1..order, direction \in {1, -1} : RotateUD(which, direction)
    \/ \E face_idx \in -1..6, direction \in {1, -1} : RotateFace(face_idx, direction)
    \/ RotateAgain

SpecTurn == InitTurn /\ [][NextTurn]_vars

InRange(c) == c.a >= 0 /\ c.a < order

Distinct(self) ==
    \E linear \in { _faces_to_linear(self) } :
        Cardinality({ linear[i] : i \in 1..Len(linear) }) = Len(linear)

\* C21: rotate_LR(which, +1) with 0 <= which < n computes from the cube as
\* it was at entry: Front's column `which` gets Down's mirrored column read
\* bottom-up, Down's mirrored column gets Back's mirrored column read
\* bottom-up, Back's mirrored column gets Top's column read bottom-up,
\* Top's column gets Front's old column; all other cells of Front, Top,
\* Back and Down stay.
C21_ColumnCycle ==
    \A k \in 1..Len(hist) :
        (hist[k].op = "rotate_LR" /\ hist[k].d = 1 /\ InRange(hist[k])) =>
            LET n == order
                which == hist[k].a
                old == Before(k).faces
                new == After(k).faces
            IN  /\ \A r \in 0..(n-1) :
                      /\ new[0][r][which] = old[3][n-1-r][n-1-which]
                      /\ new[3][n-1-r][n-1-which] = old[2][r][n-1-which]
                      /\ new[2][r][n-1-which] = old[1][n-1-r][which]
                      /\ new[1][r][which] = old[0][r][which]
                /\ \A r, c \in 0..(n-1) :
                      /\ c # which =>
                            new[0][r][c] = old[0][r][c] /\ new[1][r][c] = old[1][r][c]
                      /\ c # n-1-which =>
                            new[2][r][c] = old[2][r][c] /\ new[3][r][c] = old[3][r][c]

C21_Witness ==
    /\ Len(hist) = 1 /\ order = 3
    /\ hist[1].op = "rotate_LR" /\ hist[1].a = 1 /\ hist[1].d = 1
    /\ Distinct(snaps[1])
    /\ heap[cube].faces[0][0][1] = snaps[1].faces[3][2][1]
    /\ heap[cube].faces[1][2][1] = snaps[1].faces[0][2][1]
    /\ heap[cube].faces[0][0][1] # snaps[1].faces[0][0][1]

\* C22 as stated: rotate_UD(which, +1) carries Front's row to Right, Right's
\* to Back, Back's to Left and Left's to Front, column by column.
C22_RowCycleFrontToRight ==
    \A k \in 1..Len(hist) :
        (hist[k].op = "rotate_UD" /\ hist[k].d = 1 /\ InRange(hist[k])) =>
            LET which == hist[k].a
                old == Before(k).faces
                new == After(k).faces
            IN  \A c \in 0..(order-1) :
                    /\ new[5][which][c] = old[0][which][c]
                    /\ new[2][which][c] = old[5][which][c]
                    /\ new[4][which][c] = old[2][which][c]
                    /\ new[0][which][c] = old[4][which][c]

\* C22 amended: rotate_UD(which, +1) carries Front's row to Left, Left's to
\* Back, Back's to Right and Right's to Front, column by column with no
\* index mirroring; the other rows of the four faces stay.
C22_RowCycle ==
    \A k \in 1..Len(hist) :
        (hist[k].op = "rotate_UD" /\ hist[k].d = 1 /\ InRange(hist[k])) =>
            LET which == hist[k].a
                old == Before(k).faces
                new == After(k).faces
            IN  /\ \A c \in 0..(order-1) :
                      /\ new[4][which][c] = old[0][which][c]
                      /\ new[2][which][c] = old[4][which][c]
                      /\ new[5][which][c] = old[2][which][c]
                      /\ new[0][which][c] = old[5][which][c]
                /\ \A f \in {0, 2, 4, 5} : \A r \in 0..(order-1) :
                      r # which => new[f][r] = old[f][r]

C22_Witness ==
    /\ Len(hist) = 1 /\ order = 3
    /\ hist[1].op = "rotate_UD" /\ hist[1].a = 1 /\ hist[1].d = 1
    /\ Distinct(snaps[1])
    /\ heap[cube].faces[4][1] = snaps[1].faces[0][1]
    /\ heap[cube].faces[0][1] = snaps[1].faces[5][1]
    /\ heap[cube].faces[5][1] # snaps[1].faces[0][1]

\* A grid turned by 90 degrees: clockwise new[c][n-1-r] = old[r][c],
\* counter-clockwise new[n-1-c][r] = old[r][c].
IsSpun(new, old, n, direction) ==
    \A r, c \in 0..(n-1) :
        IF direction = 1 THEN new[c][n-1-r] = old[r][c]
                         ELSE new[n-1-c][r] = old[r][c]

\* C23: _rotate_face(f, +1) gives new[c][n-1-r] = old[r][c] and
\* _rotate_face(f, -1) gives new[n-1-c][r] = old[r][c] for all cells of
\* face f, old being the face at entry; the other five faces stay, and a
\* face index outside 0..5 changes nothing.
C23_FaceSpin ==
    \A k \in 1..Len(hist) :
        hist[k].op = "_rotate_face" =>
            LET f == hist[k].a
                old == Before(k).faces
                new == After(k).faces
            IN  IF f \in 0..5
                THEN /\ IsSpun(new[f], old[f], order, hist[k].d)
                     /\ \A g \in 0..5 : g # f => new[g] = old[g]
                ELSE new = old

C23_Witness ==
    /\ Len(hist) = 1 /\ order = 3
    /\ hist[1].op = "_rotate_face" /\ hist[1].a = 5 /\ hist[1].d = -1
    /\ Distinct(snaps[1])
    /\ heap[cube].faces[5][2][0] = snaps[1].faces[5][0][0]
    /\ heap[cube].faces[5][0][0] = snaps[1].faces[5][0][2]
    /\ heap[cube].faces[5] # snaps[1].faces[5]

\* C24: a turn of layer 0 spins the near side face by one quarter turn in
\* the direction of the layer turn, a turn of layer n-1 the far side face,
\* and no other side face is touched: rotate_LR(0, d) spins Left,
\* rotate_LR(n-1, d) spins Right, rotate_UD(0, d) spins Top,
\* rotate_UD(n-1, d) spins Down; an interior layer leaves both side faces
\* of its family as they were.
C24_BoundarySpin ==
    \A k \in 1..Len(hist) :
        (hist[k].op \in {"rotate_LR", "rotate_UD"} /\ InRange(hist[k])) =>
            LET n == order
                which == hist[k].a
                near == IF hist[k].op = "rotate_LR" THEN 4 ELSE 1
                far == IF hist[k].op = "rotate_LR" THEN 5 ELSE 3
                old == Before(k).faces
                new == After(k).faces
            IN  /\ which = 0 => IsSpun(new[near], old[near], n, hist[k].d)
                /\ which # 0 => new[near] = old[near]
                /\ which = n - 1 => IsSpun(new[far], old[far], n, hist[k].d)
                /\ which # n - 1 => new[far] = old[far]

C24_Witness ==
    /\ Len(hist) = 3 /\ order = 3
    /\ hist[1].op = "rotate_LR" /\ hist[1].a = 2 /\ hist[1].d = -1
    /\ Distinct(snaps[1])
    /\ IsSpun(snaps[2].faces[5], snaps[1].faces[5], 3, -1)
    /\ snaps[2].faces[5] # snaps[1].faces[5]
    /\ snaps[2].faces[4] = snaps[1].faces[4]
    /\ IsSpun(heap[cube].faces[5], snaps[3].faces[5], 3, -1)

\* C29: four calls in a row of rotate_LR(which, d), or of
\* rotate_UD(which, d), with 0 <= which < n leave the cube as it was before
\* the first of them.
C29_QuarterTurn ==
    \A k \in 1..(Len(hist) - 3) :
        ( /\ hist[k].op \in {"rotate_LR", "rotate_UD"}
          /\ InRange(hist[k])
          /\ hist[k + 1] = hist[k] /\ hist[k + 2] = hist[k] /\ hist[k + 3] = hist[k] )
            => After(k + 3) = Before(k)

(***************************************************************************)
(* Cipher driver.  encryptCube(cube, moves) and decryptCube(cube, moves)   *)
(* work on deepcopy(cube); a caller may also run applyMoves(cube, moves)   *)
(* on its own cube, in place.  Keys are drawn from the table moves and     *)
(* from strings that are not in the table.                                 *)
(* snaps: <<caller's cube before encryptCube, encrypted cube as returned>>.*)
(***************************************************************************)
UnknownMoves == { "L1''", "X1" }

MoveInputs == DOMAIN moveDict \cup UnknownMoves

Keys == UNION { [1..len -> MoveInputs] : len \in 0..MaxMoves }

EncryptCube(moves) ==
    /\ pc = "ready" /\ hist = << >>
    /\ \E e \in { encryptCube(moveDict, heap, cube, moves) } :
           /\ heap' = e.heap
           /\ encryptedCube' = e.ref
           /\ snaps' = << heap[cube], e.heap[e.ref] >>
    /\ outcome' = applyMovesOutcome(moveDict, heap[cube], moves)
    /\ key' = moves
    /\ pc' = "encrypted"
    /\ UNCHANGED <<extraVars, order, moveDict, cube, decryptedCube, reverseMoves, hist,
                   linearVars, poolVars>>

ApplyMovesInPlace ==
    /\ pc = "encrypted"
    /\ heap' = HeapSet(heap, cube, applyMoves(moveDict, heap[cube], key))
    /\ outcome' = applyMovesOutcome(moveDict, heap[cube], key)
    /\ pc' = "applied"
    /\ UNCHANGED <<extraVars, order, moveDict, cube, encryptedCube, decryptedCube,
                   key, reverseMoves, rotVars, linearVars, poolVars>>

DecryptCube ==
    /\ pc = "encrypted"
    /\ \E dd \in { decryptCube(moveDict, heap, encryptedCube, key) } :
           /\ heap' = dd.heap
           /\ decryptedCube' = dd.ref
    /\ reverseMoves' = invert(key)
    /\ outcome' = applyMovesOutcome(moveDict, heap[encryptedCube], invert(key))
    /\ pc' = "decrypted"
    /\ UNCHANGED <<extraVars, order, moveDict, cube, encryptedCube, key,
                   rotVars, linearVars, poolVars>>

NextCipher ==
    \/ GenerateMoves
    \/ (pc = "ready" /\ \E moves \in Keys : EncryptCube(moves))
    \/ ApplyMovesInPlace
    \/ DecryptCube

SpecCipher == Init /\ [][NextCipher]_vars

TableKey(moves) == \A i \in 1..Len(moves) : moves[i] \in DOMAIN moveDict

\* C1: for a key made of table moves only (the empty key and one-move keys
\* included), decrypting the encrypted cube with the same key gives a cube
\* whose linear form equals, symbol for symbol, that of the cube encrypted.
C1_RoundTrip ==
    (pc = "decrypted" /\ TableKey(key)) =>
        _faces_to_linear(heap[decryptedCube]) = _faces_to_linear(snaps[1])

C1_Witness ==
    /\ pc = "decrypted" /\ TableKey(key) /\ Len(key) >= 2
    /\ key[1] # key[2]
    /\ _faces_to_linear(heap[encryptedCube]) # _faces_to_linear(snaps[1])
    /\ _faces_to_linear(heap[decryptedCube]) = _faces_to_linear(snaps[1])

\* C4: encryptCube and decryptCube leave the cube they are given as it was
\* and return a different object; a later in-place applyMoves on the
\* caller's cube does not change the cube that encryptCube returned.
C4_PrivateCopy ==
    /\ pc \in {"encrypted", "applied", "decrypted"} => encryptedCube # cube
    /\ pc \in {"encrypted", "decrypted"} => heap[cube] = snaps[1]
    /\ pc \in {"encrypted", "applied", "decrypted"} => heap[encryptedCube] = snaps[2]
    /\ pc = "decrypted" => decryptedCube \notin {cube, encryptedCube}

C4_Witness ==
    \/ /\ pc = "applied"
       /\ heap[cube] # snaps[1]
       /\ snaps[2] # snaps[1]
       /\ heap[encryptedCube] = snaps[2]
    \/ /\ pc = "decrypted"
       /\ heap[decryptedCube] # heap[encryptedCube]
       /\ heap[encryptedCube] = snaps[2]
       /\ heap[cube] = snaps[1]

HasUnknownMove(moves) == \E i \in 1..Len(moves) : moves[i] \notin DOMAIN moveDict

\* C5: a sequence applied for encryption or decryption that contains a
\* string outside the move table is rejected with UnknownMove.
C5_UnknownMoveRejected ==
    /\ (pc = "encrypted" /\ HasUnknownMove(key)) => outcome = "UnknownMove"
    /\ (pc = "decrypted" /\ HasUnknownMove(reverseMoves)) => outcome = "UnknownMove"

NoDoublePrime(moves) ==
    \A i \in 1..Len(moves) :
        ~ (endswithPrime(moves[i]) /\ endswithPrime(SubSeq(moves[i], 1, Len(moves[i]) - 1)))

SkippedWhenApplied(move) ==
    /\ move \notin DOMAIN moveDict
    /\ toggle(move) \in DOMAIN moveDict
    /\ InRange(EngineCall(moveDict, toggle(move)))

\* C27: silent skipping breaks the round trip.  Whenever the key holds
\* exactly one string that is skipped by encryption and applied, toggled,
\* by decryption, and the cells of the cube are all distinct,
\* decryptCube(encryptCube(C, S), S) differs from C.
C27_SkipBreaksRoundTrip ==
    ( /\ pc = "decrypted"
      /\ Cardinality({ i \in 1..Len(key) : SkippedWhenApplied(key[i]) }) = 1
      /\ Distinct(snaps[1]) )
        => _faces_to_linear(heap[decryptedCube]) # _faces_to_linear(snaps[1])

C27_Witness ==
    /\ pc = "decrypted" /\ order = 2
    /\ key = << "R1", "L1''" >>
    /\ reverseMoves = << "L1'", "R1'" >>
    /\ Distinct(snaps[1])
    /\ heap[encryptedCube] = rotate_UD(snaps[1], 0, 1)
    /\ heap[decryptedCube] # snaps[1]
    /\ heap[decryptedCube] = rotate_UD(rotate_LR(heap[encryptedCube], 0, -1), 0, -1)

(***************************************************************************)
(* Grid-face model: a cube is built from a linear sequence of any length   *)
(* (Cube(order, cube_data)), possibly turned once, flattened               *)
(* (cube._faces_to_linear()) and rebuilt from its linear form.             *)
(***************************************************************************)
LinearInputs(n) ==
    UNION { { SubSeq(FillerChars, 1, len),
              [ i \in 1..len |-> FillerChars[((i - 1) % 3) + 1] ] }
            : len \in 0..(CellCount(n) + MaxExcess) }

InitLinear ==
    /\ pc = "new"
    /\ order \in Orders
    /\ moveDict = InitialMoveDict
    /\ heap = << >>
    /\ CipherIdle
    /\ hist = << >> /\ snaps = << >>
    /\ cube_data \in LinearInputs(order)
    /\ linear_out = << >>
    /\ rebuilt = 0
    /\ PoolIdle
    /\ ExtraIdle

Construct ==
    /\ pc = "new"
    /\ heap' = << NewCube(order, cube_data) >>
    /\ cube' = 1
    /\ pc' = "built"
    /\ UNCHANGED <<extraVars, order, moveDict, encryptedCube, decryptedCube, key, reverseMoves,
                   outcome, rotVars, linearVars, poolVars>>

TurnLayer(family, which, direction) ==
    /\ pc = "built" /\ hist = << >>
    /\ heap' = HeapSet(heap, cube,
                  IF family = "rotate_LR" THEN rotate_LR(heap[cube], which, direction)
                  ELSE rotate_UD(heap[cube], which, direction))
    /\ Record(Call(family, which, direction, ""))

ToLinear ==
    /\ pc = "built"
    /\ linear_out' = _faces_to_linear(heap[cube])
    /\ pc' = "flat"
    /\ UNCHANGED <<extraVars, order, moveDict, heap, cipherVars, rotVars, cube_data, rebuilt, poolVars>>

Rebuild ==
    /\ pc = "flat"
    /\ heap' = Append(heap, NewCube(order, linear_out))
    /\ rebuilt' = Len(heap) + 1
    /\ pc' = "rebuilt"
    /\ UNCHANGED <<extraVars, order, moveDict, cipherVars, rotVars, cube_data, linear_out, poolVars>>

NextLinear ==
    \/ Construct
    \/ \E family \in {"rotate_LR", "rotate_UD"}, which \in 0..(order - 1),
          direction \in {1, -1} : TurnLayer(family, which, direction)
    \/ ToLinear
    \/ Rebuild

SpecLinear == InitLinear /\ [][NextLinear]_vars

Populated(self) ==
    \A face_idx \in 0..5, row \in 0..(self.order - 1), col \in 0..(self.order - 1) :
        self.faces[face_idx][row][col] # EmptyCell

\* The cell that the linear position i (0-based) names: face i div n*n,
\* row (i mod n*n) div n, column (i mod n*n) mod n.
CellAt(self, i) ==
    LET n == self.order
    IN  self.faces[i \div (n * n)][(i % (n * n)) \div n][(i % (n * n)) % n]

\* C6: a cube with all 6*n*n cells populated, rebuilt from its own linear
\* form, has the same six faces cell for cell.
C6_RebuildFromLinear ==
    (pc = "rebuilt" /\ Populated(heap[cube])) =>
        heap[rebuilt].faces = heap[cube].faces

C6_Witness ==
    /\ pc = "rebuilt" /\ Populated(heap[cube]) /\ order >= 2
    /\ hist # << >> /\ heap[cube] # snaps[1]
    /\ Cardinality(Range(linear_out)) = CellCount(order)
    /\ heap[rebuilt].faces = heap[cube].faces

\* C7: _faces_to_linear returns exactly 6*n*n symbols for any cube, and
\* symbol i is the cell at face i div n*n, row (i mod n*n) div n, column
\* (i mod n*n) mod n (faces in the order Front, Top, Back, Down, Left, Right).
C7_LinearOrder ==
    pc \in {"flat", "rebuilt"} =>
        /\ Len(linear_out) = CellCount(order)
        /\ \A i \in 0..(CellCount(order) - 1) : linear_out[i + 1] = CellAt(heap[cube], i)

C7_Witness ==
    /\ pc = "flat" /\ order >= 2
    /\ Cardinality(Range(linear_out)) = CellCount(order)
    /\ Len(linear_out) = CellCount(order)
    /\ linear_out[2] = heap[cube].faces[0][0][1]
    /\ linear_out[CellCount(order)] = heap[cube].faces[5][order - 1][order - 1]

\* C8: a cube built from more than 6*n*n symbols holds the first 6*n*n of
\* them in linear order; a cube built from fewer (but at least one) holds
\* them in its first cells, in linear order, and '' in every other cell.
C8_TruncateOrPad ==
    (pc = "built" /\ hist = << >> /\ Len(cube_data) > 0) =>
        \A i \in 0..(CellCount(order) - 1) :
            CellAt(heap[cube], i) =
                IF i < Len(cube_data) THEN cube_data[i + 1] ELSE EmptyCell

C8_Witness ==
    /\ pc = "built" /\ hist = << >>
    /\ \/ /\ Len(cube_data) > CellCount(order)
          /\ cube_data[Len(cube_data)] \notin Range(_faces_to_linear(heap[cube]))
          /\ Populated(heap[cube])
       \/ /\ Len(cube_data) > 0 /\ Len(cube_data) < CellCount(order)
          /\ CellAt(heap[cube], 0) = cube_data[1]
          /\ CellAt(heap[cube], CellCount(order) - 1) = EmptyCell

(***************************************************************************)
(* Key pool.  generate_key_pool(num_cubes, moves_per_key, pool_multiplier) *)
(* appends num_cubes * pool_multiplier keys, each a list of moves_per_key  *)
(* moves that random.choices draws from the keys of moveDict.  Here the    *)
(* draws come from DrawnMoves and the pool repeats two drawn keys in turn. *)
(* selective_encrypt(cubes, key_pool, selection_method) picks one pool     *)
(* index per cube, encrypts the cube with that key and appends the         *)
(* encrypted cube and the index to its two result lists.                   *)
(***************************************************************************)
DrawnMoves == { "L1", "R1'" }
MovesPerKey == { 0, 1 }
PoolMultipliers == { 1, 2 }
SelectionMethods == { "random", "sequential", "hash_based", "other" }

InitPool ==
    /\ pc = "start"
    /\ order \in Orders
    /\ moveDict = InitialMoveDict
    /\ \E num_cubes \in 0..MaxCubes :
         \E texts \in [1..num_cubes -> PlainTexts(order)] :
            /\ heap = [ i \in 1..num_cubes |-> NewCube(order, texts[i]) ]
            /\ cubes = [ i \in 1..num_cubes |-> i ]
    /\ CipherIdle
    /\ hist = << >> /\ snaps = << >>
    /\ LinearIdle
    /\ key_pool = << >>
    /\ selection_method = "none"
    /\ encrypted_cubes = << >>
    /\ used_key_indices = << >>
    /\ ExtraIdle

GenerateKeyPool(moves_per_key, pool_multiplier) ==
    /\ pc = "ready"
    /\ LET pool_size == Len(cubes) * pool_multiplier
           draws == [1..moves_per_key -> DrawnMoves \cap DOMAIN moveDict]
       IN  \E odd \in draws, even \in draws :
              key_pool' = [ k \in 1..pool_size |-> IF k % 2 = 1 THEN odd ELSE even ]
    /\ pc' = "pooled"
    /\ UNCHANGED <<extraVars, order, moveDict, heap, cipherVars, rotVars, linearVars,
                   cubes, selection_method, encrypted_cubes, used_key_indices>>

\* Variant of KeyIndex whose hash_based branch also counts the position i.
KeyIndex_hash_position(method, i, self, pool, randint) ==
    IF method = "random" THEN randint
    ELSE IF method = "sequential" THEN i % Len(pool)
    ELSE IF method = "hash_based" THEN (get_state_hash(self) + i) % Len(pool)
    ELSE i % Len(pool)

\* The index that the loop body chooses for cube number i (0-based);
\* randint is what random.randint(0, len(key_pool) - 1) returned.
KeyIndex(method, i, self, pool, randint) ==
    IF method = "random" THEN randint
    ELSE IF method = "sequential" THEN i % Len(pool)
    ELSE IF method = "hash_based" THEN get_state_hash(self) % Len(pool)
    ELSE i % Len(pool)

\* Variant of RecordIndex that records the index counted from one.
RecordIndex_one_based(indices, key_index, i) == Append(indices, key_index + 1)

\* Variant of RecordIndex that records the cube number i, not the index.
RecordIndex_cube_number(indices, key_index, i) == Append(indices, i)

\* used_key_indices.append(key_index), in the iteration for cube number i.
RecordIndex(indices, key_index, i) == Append(indices, key_index)

\* selective_encrypt as a whole: the state of the loop after i cubes.
selective_encrypt(d, h, cube_list, pool, method, randints) ==
    LET step[i \in 0..Len(cube_list)] ==
            IF i = 0
            THEN [ heap |-> h, encrypted_cubes |-> << >>, used_key_indices |-> << >> ]
            ELSE LET prev == step[i - 1]
                     key_index == KeyIndex(method, i - 1, prev.heap[cube_list[i]],
                                           pool, randints[i])
                     selected_moves == pool[key_index + 1]
                     e == encryptCube(d, prev.heap, cube_list[i], selected_moves)
                 IN  [ heap |-> e.heap,
                       encrypted_cubes |-> Append(prev.encrypted_cubes, e.ref),
                       used_key_indices |->
                           RecordIndex(prev.used_key_indices, key_index, i - 1) ]
    IN  step[Len(cube_list)]

SelectiveEncrypt(method) ==
    /\ pc = "pooled"
    /\ \E randints \in [1..Len(cubes) -> 0..(Len(key_pool) - 1)] :
          \E r \in { selective_encrypt(moveDict, heap, cubes, key_pool, method, randints) } :
              /\ heap' = r.heap
              /\ encrypted_cubes' = r.encrypted_cubes
              /\ used_key_indices' = r.used_key_indices
    /\ selection_method' = method
    /\ snaps' = [ i \in 1..Len(cubes) |-> heap[cubes[i]] ]
    /\ pc' = "selected"
    /\ UNCHANGED <<extraVars, order, moveDict, cipherVars, hist, linearVars, cubes, key_pool>>

NextPool ==
    \/ GenerateMoves
    \/ \E moves_per_key \in MovesPerKey, pool_multiplier \in PoolMultipliers :
          GenerateKeyPool(moves_per_key, pool_multiplier)
    \/ \E method \in SelectionMethods : SelectiveEncrypt(method)

SpecPool == InitPool /\ [][NextPool]_vars

\* The cube that decryptCube returns for the object behind a handle.
Decrypted(ref, moves) ==
    LET r == decryptCube(moveDict, heap, ref, moves) IN r.heap[r.ref]

\* C10: selective_encrypt returns one encrypted cube and one pool index per
\* cube, in cube order, and decrypting encrypted cube i with the pool key
\* at its recorded index gives the linear form of cube i.
C10_IndicesDecrypt ==
    pc = "selected" =>
        /\ Len(encrypted_cubes) = Len(cubes)
        /\ Len(used_key_indices) = Len(cubes)
        /\ \A i \in 1..Len(cubes) :
              /\ used_key_indices[i] \in 0..(Len(key_pool) - 1)
              /\ _faces_to_linear(Decrypted(encrypted_cubes[i], key_pool[used_key_indices[i] + 1]))
                    = _faces_to_linear(snaps[i])

C10_Witness ==
    /\ pc = "selected" /\ Len(cubes) >= 2 /\ selection_method = "random"
    /\ used_key_indices[1] > used_key_indices[2]
    /\ key_pool[used_key_indices[1] + 1] # key_pool[used_key_indices[2] + 1]
    /\ \A i \in 1..Len(cubes) :
          /\ heap[encrypted_cubes[i]] # snaps[i]
          /\ _faces_to_linear(Decrypted(encrypted_cubes[i], key_pool[used_key_indices[i] + 1]))
                = _faces_to_linear(snaps[i])


\* C11: with a pool of P >= 1 keys, P = number of cubes x multiplier, every
\* index that selective_encrypt records lies in 0..P-1, whichever of the
\* rules random, sequential, hash_based or an unrecognised name is used.
C11_IndexInPool ==
    (pc = "selected" /\ Len(key_pool) >= 1) =>
        /\ \E pool_multiplier \in PoolMultipliers :
              Len(key_pool) = Len(cubes) * pool_multiplier
        /\ \A i \in 1..Len(used_key_indices) :
              0 <= used_key_indices[i] /\ used_key_indices[i] < Len(key_pool)

C11_Witness ==
    /\ pc = "selected" /\ selection_method = "random"
    /\ Len(cubes) = 2 /\ Len(key_pool) = 4
    /\ used_key_indices = << 0, Len(key_pool) - 1 >>

\* C12: hash_based selection depends on the cube's symbols and the pool
\* size only: the index recorded for a cube is the one computed from its
\* content alone, so cubes with the same symbols get the same index at
\* every position of the list and after any earlier selections.
C12_HashByContent ==
    (pc = "selected" /\ selection_method = "hash_based") =>
        /\ \A i \in 1..Len(cubes) :
              used_key_indices[i] = KeyIndex("hash_based", 0, snaps[i], key_pool, 0)
        /\ \A i, j \in 1..Len(cubes) :
              _faces_to_linear(snaps[i]) = _faces_to_linear(snaps[j])
                  => used_key_indices[i] = used_key_indices[j]

C12_Witness ==
    /\ pc = "selected" /\ selection_method = "hash_based"
    /\ Len(cubes) = 2 /\ Len(key_pool) = 4
    /\ snaps[1] = snaps[2]
    /\ used_key_indices[1] = used_key_indices[2]
    /\ used_key_indices[2] # 1


(***************************************************************************)
(* Notation tables.  CubeUtils.py starts from the eight order-1 entries    *)
(* and main calls generate_moves(order) once; CubeEncryptUtils_Python.py   *)
(* has the order-7 table written out and no generator.  Either way         *)
(* generateRandomMoves(numMoves) then draws numMoves keys of the table.    *)
(***************************************************************************)
MaxTableOrder == 7
DrawLengths == { 0, 1 }

StaticMoveDict ==
    ("L1" :> <<0, 1>>) @@ ("L1'" :> <<0, -1>>) @@ ("R1" :> <<1, 1>>) @@ ("R1'" :> <<1, -1>>)
    @@ ("U1" :> <<2, 1>>) @@ ("U1'" :> <<2, -1>>) @@ ("D1" :> <<3, 1>>) @@ ("D1'" :> <<3, -1>>)
    @@ ("L2" :> <<4, 1>>) @@ ("L2'" :> <<4, -1>>) @@ ("R2" :> <<5, 1>>) @@ ("R2'" :> <<5, -1>>)
    @@ ("U2" :> <<6, 1>>) @@ ("U2'" :> <<6, -1>>) @@ ("D2" :> <<7, 1>>) @@ ("D2'" :> <<7, -1>>)
    @@ ("L3" :> <<8, 1>>) @@ ("L3'" :> <<8, -1>>) @@ ("R3" :> <<9, 1>>) @@ ("R3'" :> <<9, -1>>)
    @@ ("U3" :> <<10, 1>>) @@ ("U3'" :> <<10, -1>>) @@ ("D3" :> <<11, 1>>) @@ ("D3'" :> <<11, -1>>)
    @@ ("L4" :> <<12, 1>>) @@ ("L4'" :> <<12, -1>>) @@ ("R4" :> <<13, 1>>) @@ ("R4'" :> <<13, -1>>)
    @@ ("U4" :> <<14, 1>>) @@ ("U4'" :> <<14, -1>>) @@ ("D4" :> <<15, 1>>) @@ ("D4'" :> <<15, -1>>)
    @@ ("L5" :> <<16, 1>>) @@ ("L5'" :> <<16, -1>>) @@ ("R5" :> <<17, 1>>) @@ ("R5'" :> <<17, -1>>)
    @@ ("U5" :> <<18, 1>>) @@ ("U5'" :> <<18, -1>>) @@ ("D5" :> <<19, 1>>) @@ ("D5'" :> <<19, -1>>)
    @@ ("L6" :> <<20, 1>>) @@ ("L6'" :> <<20, -1>>) @@ ("R6" :> <<21, 1>>) @@ ("R6'" :> <<21, -1>>)
    @@ ("U6" :> <<22, 1>>) @@ ("U6'" :> <<22, -1>>) @@ ("D6" :> <<23, 1>>) @@ ("D6'" :> <<23, -1>>)
    @@ ("L7" :> <<24, 1>>) @@ ("L7'" :> <<24, -1>>) @@ ("R7" :> <<25, 1>>) @@ ("R7'" :> <<25, -1>>)
    @@ ("U7" :> <<26, 1>>) @@ ("U7'" :> <<26, -1>>) @@ ("D7" :> <<27, 1>>) @@ ("D7'" :> <<27, -1>>)

InitTable ==
    /\ \/ pc = "start" /\ order \in 1..MaxTableOrder /\ moveDict = InitialMoveDict
       \/ pc = "ready" /\ order = 7 /\ moveDict = StaticMoveDict
    /\ heap = << >>
    /\ CipherIdle
    /\ hist = << >> /\ snaps = << >>
    /\ LinearIdle
    /\ PoolIdle
    /\ ExtraIdle

generateRandomMoves(d, numMoves) == [ 1..numMoves -> DOMAIN d ]

GenerateRandomMoves(numMoves) ==
    /\ pc = "ready"
    /\ key' \in generateRandomMoves(moveDict, numMoves)
    /\ pc' = "drawn"
    /\ UNCHANGED <<extraVars, order, moveDict, heap, cube, encryptedCube, decryptedCube,
                   reverseMoves, outcome, rotVars, linearVars, poolVars>>

NextTable ==
    \/ GenerateMoves
    \/ \E numMoves \in DrawLengths : GenerateRandomMoves(numMoves)

SpecTable == InitTable /\ [][NextTable]_vars

\* The notations of order n: a letter, a layer number 1..n, an optional '.
Notations(n) ==
    { letter \o ToString(k) \o suffix :
        letter \in {"L", "R", "U", "D"}, k \in 1..n, suffix \in {"", "'"} }

\* C17: the table for order n, as generate_moves(n) leaves it for n >= 1
\* and as the static order-7 table, has exactly 8*n keys, and they are the
\* strings Fk and Fk' for F in L, R, U, D and k in 1..n.
C17_TableSize ==
    pc \in {"ready", "drawn"} =>
        /\ Cardinality(DOMAIN moveDict) = 8 * order
        /\ DOMAIN moveDict = Notations(order)

C17_Witness ==
    /\ pc = "drawn" /\ order = 3
    /\ Cardinality(DOMAIN moveDict) = 24
    /\ key = << "D3'" >>
    /\ "L4" \notin DOMAIN moveDict


(***************************************************************************)
(* CubeKeyEncoder (CubeKeyEncoder_Python.py).  MOVE_ENCODING gives each of *)
(* the 56 notations of order 7 a code 0..55, CODE_DECODING is its inverse  *)
(* dict; the xor scheme combines every code with xor_key = 0xAA.  A move   *)
(* or code that is not in the dict is skipped with a printed warning.      *)
(***************************************************************************)
MOVE_ENCODING ==
    ("L1" :> 0) @@ ("L1'" :> 1) @@ ("L2" :> 2) @@ ("L2'" :> 3) @@ ("L3" :> 4) @@ ("L3'" :> 5)
    @@ ("L4" :> 6) @@ ("L4'" :> 7) @@ ("L5" :> 8) @@ ("L5'" :> 9) @@ ("L6" :> 10) @@ ("L6'" :> 11)
    @@ ("L7" :> 12) @@ ("L7'" :> 13) @@ ("R1" :> 14) @@ ("R1'" :> 15) @@ ("R2" :> 16) @@ ("R2'" :> 17)
    @@ ("R3" :> 18) @@ ("R3'" :> 19) @@ ("R4" :> 20) @@ ("R4'" :> 21) @@ ("R5" :> 22) @@ ("R5'" :> 23)
    @@ ("R6" :> 24) @@ ("R6'" :> 25) @@ ("R7" :> 26) @@ ("R7'" :> 27) @@ ("U1" :> 28) @@ ("U1'" :> 29)
    @@ ("U2" :> 30) @@ ("U2'" :> 31) @@ ("U3" :> 32) @@ ("U3'" :> 33) @@ ("U4" :> 34) @@ ("U4'" :> 35)
    @@ ("U5" :> 36) @@ ("U5'" :> 37) @@ ("U6" :> 38) @@ ("U6'" :> 39) @@ ("U7" :> 40) @@ ("U7'" :> 41)
    @@ ("D1" :> 42) @@ ("D1'" :> 43) @@ ("D2" :> 44) @@ ("D2'" :> 45) @@ ("D3" :> 46) @@ ("D3'" :> 47)
    @@ ("D4" :> 48) @@ ("D4'" :> 49) @@ ("D5" :> 50) @@ ("D5'" :> 51) @@ ("D6" :> 52) @@ ("D6'" :> 53)
    @@ ("D7" :> 54) @@ ("D7'" :> 55)

CODE_DECODING ==
    [ v \in { MOVE_ENCODING[k] : k \in DOMAIN MOVE_ENCODING } |->
        CHOOSE k \in DOMAIN MOVE_ENCODING : MOVE_ENCODING[k] = v ]

xor_key == 170

\* Python's a ^ b on non-negative integers, bit by bit.
RECURSIVE Xor(_, _)
Xor(a, b) ==
    IF a = 0 /\ b = 0 THEN 0
    ELSE (((a % 2) + (b % 2)) % 2) + 2 * Xor(a \div 2, b \div 2)

\* The inner loop of moves_to_codes over one sequence.
EncodeSequence(scheme, sequence) ==
    LET enc[i \in 0..Len(sequence)] ==
            IF i = 0 THEN << >>
            ELSE LET move == sequence[i]
                 IN  IF move \in DOMAIN MOVE_ENCODING
                     THEN LET code == MOVE_ENCODING[move]
                          IN  Append(enc[i - 1],
                                     IF scheme = "xor" THEN Xor(code, xor_key) ELSE code)
                     ELSE enc[i - 1]
    IN  enc[Len(sequence)]

moves_to_codes(scheme, list) == [ s \in 1..Len(list) |-> EncodeSequence(scheme, list[s]) ]

\* Variant of DecodeSequence that looks the code up as it is stored.
DecodeSequence_raw(scheme, encoded_sequence) ==
    LET dec[i \in 0..Len(encoded_sequence)] ==
            IF i = 0 THEN << >>
            ELSE LET code == encoded_sequence[i]
                 IN  IF code \in DOMAIN CODE_DECODING
                     THEN Append(dec[i - 1], CODE_DECODING[code])
                     ELSE dec[i - 1]
    IN  dec[Len(encoded_sequence)]

\* The inner loop of codes_to_moves over one encoded sequence.
DecodeSequence(scheme, encoded_sequence) ==
    LET dec[i \in 0..Len(encoded_sequence)] ==
            IF i = 0 THEN << >>
            ELSE LET stored == encoded_sequence[i]
                     code == IF scheme = "xor" THEN Xor(stored, xor_key) ELSE stored
                 IN  IF code \in DOMAIN CODE_DECODING
                     THEN Append(dec[i - 1], CODE_DECODING[code])
                     ELSE dec[i - 1]
    IN  dec[Len(encoded_sequence)]

codes_to_moves(scheme, list) == [ s \in 1..Len(list) |-> DecodeSequence(scheme, list[s]) ]

MaxSeqs == 2
Schemes == { "simple", "xor", "base64" }

\* Move sequences given to the encoder: empty, short, with repeats, every
\* notation once in table order, and one with a string outside the table.
AllNotations ==
    << "L1", "L1'", "L2", "L2'", "L3", "L3'", "L4", "L4'",
       "L5", "L5'", "L6", "L6'", "L7", "L7'", "R1", "R1'",
       "R2", "R2'", "R3", "R3'", "R4", "R4'", "R5", "R5'",
       "R6", "R6'", "R7", "R7'", "U1", "U1'", "U2", "U2'",
       "U3", "U3'", "U4", "U4'", "U5", "U5'", "U6", "U6'",
       "U7", "U7'", "D1", "D1'", "D2", "D2'", "D3", "D3'",
       "D4", "D4'", "D5", "D5'", "D6", "D6'", "D7", "D7'" >>

SampleSequences ==
    { << >>, << "L1" >>, << "D7'", "L1" >>, << "R4", "R4", "U7'" >>,
      AllNotations, << "X1", "L2" >> }

InitEncoder ==
    /\ pc = "new"
    /\ encoding_scheme \in Schemes
    /\ moves_list \in UNION { [1..len -> SampleSequences] : len \in 0..MaxSeqs }
    /\ encoded_sequences = << >>
    /\ decoded_sequences = << >>
    /\ base64_data = << >> /\ loaded_sequences = << >>
    /\ order = 7
    /\ moveDict = StaticMoveDict
    /\ heap = << >>
    /\ CipherIdle
    /\ hist = << >> /\ snaps = << >>
    /\ LinearIdle
    /\ PoolIdle
    /\ BruteIdle /\ MainIdle /\ TextIdle

MovesToCodes ==
    /\ pc = "new"
    /\ encoded_sequences' = moves_to_codes(encoding_scheme, moves_list)
    /\ pc' = "encoded"
    /\ UNCHANGED <<order, moveDict, heap, cipherVars, rotVars, linearVars, poolVars,
                   encoding_scheme, moves_list, decoded_sequences,
                   base64_data, loaded_sequences,
                   bruteVars, mainVars, textVars>>

CodesToMoves ==
    /\ pc = "encoded"
    /\ decoded_sequences' = codes_to_moves(encoding_scheme, encoded_sequences)
    /\ pc' = "decoded"
    /\ UNCHANGED <<order, moveDict, heap, cipherVars, rotVars, linearVars, poolVars,
                   encoding_scheme, moves_list, encoded_sequences,
                   base64_data, loaded_sequences,
                   bruteVars, mainVars, textVars>>

NextEncoder == MovesToCodes \/ CodesToMoves

SpecEncoder == InitEncoder /\ [][NextEncoder]_vars

OnlyNotations(list) ==
    \A s \in 1..Len(list) : \A i \in 1..Len(list[s]) : list[s][i] \in DOMAIN MOVE_ENCODING

\* C18: for a list of move sequences made of the 56 notations only, under
\* the simple and the xor scheme, decoding the encoded list gives the list
\* back: as many sequences, the same moves, in the same order.
C18_CodesRoundTrip ==
    ( /\ pc = "decoded"
      /\ encoding_scheme \in {"simple", "xor"}
      /\ OnlyNotations(moves_list) )
        => /\ Len(decoded_sequences) = Len(moves_list)
           /\ decoded_sequences = moves_list

C18_Witness ==
    /\ pc = "decoded" /\ encoding_scheme = "xor"
    /\ moves_list = << AllNotations, << "D7'", "L1" >> >>
    /\ encoded_sequences[2] = << Xor(55, 170), 170 >>
    /\ encoded_sequences[2] # << 55, 0 >>
    /\ decoded_sequences = moves_list


(***************************************************************************)
(* CubeKeyEncoder.encode_to_base64 / decode_from_base64.  The encoded      *)
(* sequences are flattened into one list, each sequence preceded by its    *)
(* length; bytes(flat_codes) raises ValueError unless every number is in   *)
(* range(0, 256); base64.b64encode turns each group of three bytes into    *)
(* four characters of the alphabet, padding the last group with '='.       *)
(* The Base64 text is a sequence of one-character strings; b64decode is    *)
(* given only texts that b64encode produced.                               *)
(***************************************************************************)
B64Alphabet == "ABCDEFGHIJKLMNOPQRSTUVWXYZabcdefghijklmnopqrstuvwxyz0123456789+/"

B64Char(v) == SubSeq(B64Alphabet, v + 1, v + 1)

B64Value(ch) == CHOOSE v \in 0..63 : B64Char(v) = ch

\* flat_codes.append(len(sequence)); flat_codes.extend(sequence)
Flatten(sequences) ==
    LET flat_codes[s \in 0..Len(sequences)] ==
            IF s = 0 THEN << >>
            ELSE flat_codes[s - 1] \o << Len(sequences[s]) >> \o sequences[s]
    IN  flat_codes[Len(sequences)]

\* Variant of bytes that keeps the low eight bits of every number.
bytes_wrapping(flat_codes) ==
    [ raised |-> "",
      byte_data |-> [ i \in 1..Len(flat_codes) |-> flat_codes[i] % 256 ] ]

\* byte_data = bytes(flat_codes)
bytes(flat_codes) ==
    IF \E i \in 1..Len(flat_codes) : flat_codes[i] < 0 \/ flat_codes[i] > 255
    THEN [ raised |-> "ValueError", byte_data |-> << >> ]
    ELSE [ raised |-> "", byte_data |-> flat_codes ]

\* base64.b64encode(byte_data).decode('utf-8')
b64encode(byte_data) ==
    LET len == Len(byte_data)
        groups == (len + 2) \div 3
        At(i) == IF i <= len THEN byte_data[i] ELSE 0
        Sextet(g, j) ==
            LET b1 == At(3 * g - 2)
                b2 == At(3 * g - 1)
                b3 == At(3 * g)
            IN  CASE j = 1 -> b1 \div 4
                  [] j = 2 -> ((b1 % 4) * 16) + (b2 \div 16)
                  [] j = 3 -> ((b2 % 16) * 4) + (b3 \div 64)
                  [] j = 4 -> b3 % 64
    IN  [ i \in 1..(4 * groups) |->
            LET g == ((i - 1) \div 4) + 1
                j == ((i - 1) % 4) + 1
            IN  IF (j = 3 /\ 3 * g - 1 > len) \/ (j = 4 /\ 3 * g > len)
                THEN "="
                ELSE B64Char(Sextet(g, j)) ]

\* base64.b64decode(base64_string)
b64decode(base64_string) ==
    LET padding == Cardinality({ i \in 1..Len(base64_string) : base64_string[i] = "=" })
        groups == Len(base64_string) \div 4
        V(i) == IF base64_string[i] = "=" THEN 0 ELSE B64Value(base64_string[i])
    IN  [ k \in 1..(3 * groups - padding) |->
            LET g == (k - 1) \div 3
                j == (k - 1) % 3
            IN  CASE j = 0 -> (V(4 * g + 1) * 4) + (V(4 * g + 2) \div 16)
                  [] j = 1 -> ((V(4 * g + 2) % 16) * 16) + (V(4 * g + 3) \div 4)
                  [] j = 2 -> ((V(4 * g + 3) % 4) * 64) + V(4 * g + 4) ]

encode_to_base64(sequences) ==
    LET b == bytes(Flatten(sequences))
    IN  IF b.raised # "" THEN [ raised |-> b.raised, text |-> << >> ]
        ELSE [ raised |-> "", text |-> b64encode(b.byte_data) ]

\* The while loop of decode_from_base64; index counts from 0 as in the code
\* and a slice that runs past the end of byte_data stops at the end.
RECURSIVE DecodeLoop(_, _, _)
DecodeLoop(byte_data, index, sequences) ==
    IF index >= Len(byte_data) THEN sequences
    ELSE LET seq_length == byte_data[index + 1]
             last == IF index + 1 + seq_length < Len(byte_data)
                     THEN index + 1 + seq_length ELSE Len(byte_data)
             sequence == SubSeq(byte_data, index + 2, last)
         IN  DecodeLoop(byte_data, index + 1 + seq_length, Append(sequences, sequence))

decode_from_base64(base64_string) == DecodeLoop(b64decode(base64_string), 0, << >>)

\* Encoded sequences handed to encode_to_base64: short ones whose flattened
\* length leaves each remainder modulo 3, one of 255 codes and one of 256.
SampleCodes ==
    { << >>, << 0 >>, << 255, 0 >>, << 170, 55, 1 >>, << 1, 2, 3, 4 >>,
      [ i \in 1..255 |-> (i * 7) % 256 ],
      [ i \in 1..256 |-> i - 1 ] }

InitBase64 ==
    /\ pc = "codes"
    /\ encoding_scheme \in {"simple", "xor"}
    /\ encoded_sequences \in UNION { [1..len -> SampleCodes] : len \in 0..MaxSeqs }
    /\ moves_list = << >> /\ decoded_sequences = << >>
    /\ base64_data = << >> /\ loaded_sequences = << >>
    /\ order = 7
    /\ moveDict = StaticMoveDict
    /\ heap = << >>
    /\ CipherIdle
    /\ hist = << >> /\ snaps = << >>
    /\ LinearIdle
    /\ PoolIdle
    /\ BruteIdle /\ MainIdle /\ TextIdle

EncodeToBase64 ==
    /\ pc = "codes"
    /\ \E r \in { encode_to_base64(encoded_sequences) } :
          /\ base64_data' = r.text
          /\ outcome' = IF r.raised = "" THEN "returned" ELSE r.raised
          /\ pc' = IF r.raised = "" THEN "saved" ELSE "failed"
    /\ UNCHANGED <<order, moveDict, heap, cube, encryptedCube, decryptedCube, key,
                   reverseMoves, rotVars, linearVars, poolVars,
                   encoding_scheme, moves_list, encoded_sequences, decoded_sequences,
                   loaded_sequences, bruteVars, mainVars, textVars>>

DecodeFromBase64 ==
    /\ pc = "saved"
    /\ loaded_sequences' = decode_from_base64(base64_data)
    /\ pc' = "loaded"
    /\ UNCHANGED <<order, moveDict, heap, cipherVars, rotVars, linearVars, poolVars,
                   encoding_scheme, moves_list, encoded_sequences, decoded_sequences,
                   base64_data, bruteVars, mainVars, textVars>>

NextBase64 == EncodeToBase64 \/ DecodeFromBase64

SpecBase64 == InitBase64 /\ [][NextBase64]_vars

CodesAreBytes(sequences) ==
    \A s \in 1..Len(sequences) : \A i \in 1..Len(sequences[s]) :
        sequences[s][i] >= 0 /\ sequences[s][i] <= 255

\* C30: for a list of code sequences with every code in 0..255, if every
\* sequence has at most 255 codes then encode_to_base64 succeeds and
\* decode_from_base64 gives the list back; if some sequence has 256 or
\* more codes then encode_to_base64 raises and produces no text.
C30_Base64RoundTrip ==
    (pc # "codes" /\ CodesAreBytes(encoded_sequences)) =>
        IF \A s \in 1..Len(encoded_sequences) : Len(encoded_sequences[s]) <= 255
        THEN /\ pc \in {"saved", "loaded"}
             /\ outcome = "returned"
             /\ pc = "loaded" => loaded_sequences = encoded_sequences
        ELSE /\ pc = "failed"
             /\ outcome = "ValueError"
             /\ base64_data = << >>

C30_Witness ==
    /\ pc = "loaded"
    /\ encoded_sequences = << [ i \in 1..255 |-> (i * 7) % 256 ], << 255, 0 >> >>
    /\ Len(base64_data) = 348
    /\ SubSeq(base64_data, 1, 8) = << "/", "w", "c", "O", "F", "R", "w", "j" >>
    /\ loaded_sequences = encoded_sequences


(***************************************************************************)
(* initCube(cubeString, order): the text without ' ' and '\n' is cut into  *)
(* blocks of 6*order*order symbols, one cube per block; positions past the *)
(* end of the text are filled by random.choice over the filler alphabet.   *)
(* The text is a sequence of one-character strings.  The draws of          *)
(* random.choice come from a stream: draw number k is the symbol at place  *)
(* start + k * step of the alphabet, counted cyclically.                   *)
(***************************************************************************)
MaxBlocks == 2

FillerStreams ==
    { [ start |-> 0, step |-> 0 ], [ start |-> 61, step |-> 0 ],
      [ start |-> 10, step |-> 1 ], [ start |-> 5, step |-> 7 ] }

Draw(stream, k) == FillerChars[((stream.start + k * stream.step) % Len(FillerChars)) + 1]

\* cubeString.replace(" ", "").replace("\n", "")
StripBlanks(text) == SelectSeq(text, LAMBDA ch : ch # " " /\ ch # "\n")

\* Variant of NumCubes that rounds down.
NumCubes_floor(totalChars, charsPerCube) == totalChars \div charsPerCube

\* numCubes = (totalChars + charsPerCube - 1) // charsPerCube
NumCubes(totalChars, charsPerCube) == (totalChars + charsPerCube - 1) \div charsPerCube

\* The list of cubes that initCube returns, as new objects appended to h.
initCube(h, text, n, stream) ==
    LET stripped == StripBlanks(text)
        totalChars == Len(stripped)
        charsPerCube == n * n * 6
        numCubes == NumCubes(totalChars, charsPerCube)
        block(i) ==
            [ j \in 1..charsPerCube |->
                LET charIndex == i * charsPerCube + (j - 1)
                IN  IF charIndex < totalChars
                    THEN stripped[charIndex + 1]
                    ELSE Draw(stream, charIndex - totalChars) ]
    IN  [ heap  |-> h \o [ i \in 1..numCubes |-> NewCube(n, block(i - 1)) ],
          cubes |-> [ i \in 1..numCubes |-> Len(h) + i ] ]

\* Input texts of a given raw length: words with blanks and line ends,
\* symbols outside the filler alphabet, no blanks at all, and blanks only.
TextAlphabets ==
    { << "h", "i", " ", "t", "o", "\n", "y", "o", "u" >>,
      << "#", "\t", "-", "?", " ", "!" >>,
      << "x", "y", "z" >>,
      << " ", "\n" >> }

Texts(n) ==
    { [ i \in 1..len |-> alphabet[((i - 1) % Len(alphabet)) + 1] ] :
        len \in 0..(MaxBlocks * CellCount(n) + 1), alphabet \in TextAlphabets }

InitText ==
    /\ pc = "text"
    /\ order \in Orders
    /\ moveDict = InitialMoveDict
    /\ cubeString \in Texts(order)
    /\ heap = << >>
    /\ CipherIdle
    /\ hist = << >> /\ snaps = << >>
    /\ LinearIdle
    /\ PoolIdle
    /\ EncoderIdle /\ BruteIdle /\ MainIdle

InitCube(stream) ==
    /\ pc = "text"
    /\ \E r \in { initCube(heap, cubeString, order, stream) } :
          heap' = r.heap /\ cubes' = r.cubes
    /\ pc' = "cubes"
    /\ UNCHANGED <<order, moveDict, cipherVars, rotVars, linearVars,
                   key_pool, selection_method, encrypted_cubes, used_key_indices,
                   extraVars>>

NextText == \E stream \in FillerStreams : InitCube(stream)

SpecText == InitText /\ [][NextText]_vars

\* The text with every ' ' and '\n' left out, symbol by symbol.
RECURSIVE WithoutBlanks(_)
WithoutBlanks(text) ==
    IF text = << >> THEN << >>
    ELSE IF Head(text) \in {" ", "\n"} THEN WithoutBlanks(Tail(text))
    ELSE << Head(text) >> \o WithoutBlanks(Tail(text))

\* The linear forms of the cubes of a list, one after the other.
RECURSIVE Concatenation(_, _)
Concatenation(h, list) ==
    IF list = << >> THEN << >>
    ELSE _faces_to_linear(h[Head(list)]) \o Concatenation(h, Tail(list))

\* C20: initCube(text, n) returns ceil(L / 6n^2) cubes for the L symbols
\* left after removing spaces and newlines (none for L = 0); every cube
\* holds 6n^2 non-empty symbols, the cubes' linear forms put together start
\* with the stripped text, and what follows it is filler, in the last cube.
C20_InitCubeBlocks ==
    pc = "cubes" =>
        LET stripped == WithoutBlanks(cubeString)
            L == Len(stripped)
            all == Concatenation(heap, cubes)
        IN  /\ Len(cubes) * CellCount(order) >= L
            /\ L > 0 => (Len(cubes) - 1) * CellCount(order) < L
            /\ L = 0 => cubes = << >>
            /\ \A i \in 1..Len(cubes) :
                  LET linear == _faces_to_linear(heap[cubes[i]])
                  IN  /\ Len(linear) = CellCount(order)
                      /\ \A p \in 1..Len(linear) : linear[p] # EmptyCell
            /\ SubSeq(all, 1, L) = stripped
            /\ \A p \in (L + 1)..Len(all) :
                  /\ all[p] \in Range(FillerChars)
                  /\ p > (Len(cubes) - 1) * CellCount(order)

C20_Witness ==
    /\ pc = "cubes" /\ order = 2
    /\ Len(cubes) = 2
    /\ Len(cubeString) > Len(WithoutBlanks(cubeString))
    /\ Len(WithoutBlanks(cubeString)) = CellCount(order) + 3
    /\ "#" \in Range(cubeString)
    /\ CellAt(heap[cubes[2]], 2) = "\t"
    /\ CellAt(heap[cubes[2]], 3) = "K"
    /\ CellAt(heap[cubes[2]], 4) = "L"


(***************************************************************************)
(* main, decrypt mode.  The cubes come from the input text, key_data from  *)
(* the key file.  CubeUtils.py decrypts cube i with                        *)
(* key_pool[used_key_indices[i]] while i < len(used_key_indices);          *)
(* CubeEncryptUtils_Python.py keeps one key per cube (allMoves, here the   *)
(* key_pool field) and decrypts while i < len(allMoves).  For the other    *)
(* cubes both print a line and go on; then every cube is written to the    *)
(* output and "Decryption complete" is printed.                            *)
(***************************************************************************)
RECURSIVE Join(_)
Join(list) == IF list = << >> THEN "" ELSE Head(list) \o Join(Tail(list))

cubeToString(self) == Join(_faces_to_linear(self))

StoredKeys == { << "L1" >>, << "U1'", "R1" >> }

KeyPools == UNION { [1..len -> StoredKeys] : len \in 0..MaxCubes }

InitMain ==
    /\ \/ pc = "start" /\ moveDict = InitialMoveDict
       \/ pc = "static" /\ moveDict = StaticMoveDict
    /\ order \in Orders
    /\ \E num_cubes \in 0..MaxCubes :
         \E texts \in [1..num_cubes -> PlainTexts(order)] :
            /\ heap = [ i \in 1..num_cubes |-> NewCube(order, texts[i]) ]
            /\ cubes = [ i \in 1..num_cubes |-> i ]
    /\ \E pool \in KeyPools :
         \E indices \in UNION { [1..len -> 0..(Len(pool) - 1)] : len \in 0..MaxCubes } :
            key_data = [ key_pool |-> pool, used_key_indices |-> indices ]
    /\ output = << >>
    /\ CipherIdle
    /\ hist = << >> /\ snaps = << >>
    /\ LinearIdle
    /\ key_pool = << >> /\ selection_method = "none"
    /\ encrypted_cubes = << >> /\ used_key_indices = << >>
    /\ EncoderIdle /\ BruteIdle /\ TextIdle

\* cube.cube = decrypted_cube.cube : the setter rebuilds the faces of the
\* cube object from the linear form of the decrypted copy.
DecryptInPlace(d, h, ref, moves) ==
    LET r == decryptCube(d, h, ref, moves)
        value == _faces_to_linear(r.heap[r.ref])
    IN  HeapSet(r.heap, ref,
                [ r.heap[ref] EXCEPT !.faces = _linear_to_faces(r.heap[ref].order, value) ])

\* The decrypt loop over the cubes; keys[i] is the key of cube i (1-based)
\* and cubes past Len(keys) are skipped.
DecryptLoop(d, h, cube_list, keys) ==
    LET step[i \in 0..Len(cube_list)] ==
            IF i = 0 THEN h
            ELSE IF i <= Len(keys)
                 THEN DecryptInPlace(d, step[i - 1], cube_list[i], keys[i])
                 ELSE step[i - 1]
    IN  step[Len(cube_list)]

FinishDecrypt(h) ==
    /\ heap' = h
    /\ output' = [ i \in 1..Len(cubes) |-> cubeToString(h[cubes[i]]) ]
    /\ snaps' = [ i \in 1..Len(cubes) |-> heap[cubes[i]] ]
    /\ outcome' = "Decryption complete"
    /\ pc' = "done"
    /\ UNCHANGED <<order, moveDict, cube, encryptedCube, decryptedCube, key,
                   reverseMoves, hist, linearVars, poolVars,
                   encoderVars, bruteVars, key_data, textVars>>

DecryptMode ==
    /\ pc = "ready"
    /\ LET pool == key_data.key_pool
           indices == key_data.used_key_indices
           keys == [ i \in 1..Len(indices) |-> pool[indices[i] + 1] ]
       IN  \E h \in { DecryptLoop(moveDict, heap, cubes, keys) } : FinishDecrypt(h)

DecryptModePerCubeKeys ==
    /\ pc = "static"
    /\ LET allMoves == key_data.key_pool
       IN  \E h \in { DecryptLoop(moveDict, heap, cubes, allMoves) } : FinishDecrypt(h)

NextMain == GenerateMoves \/ DecryptMode \/ DecryptModePerCubeKeys

SpecMain == InitMain /\ [][NextMain]_vars

\* The number of keys the run has for its cubes: recorded indices with the
\* key pool, stored keys in the one-key-per-cube file.
KeysAvailable ==
    IF moveDict = StaticMoveDict THEN Len(key_data.key_pool)
    ELSE Len(key_data.used_key_indices)

\* C16: a decryption run that has fewer keys or indices than cubes ends by
\* reporting InsufficientKeyMaterial; it does not end as a completed
\* decryption whose output still holds the cubes without a key as they were.
C16_InsufficientKeysReported ==
    (pc = "done" /\ KeysAvailable < Len(cubes)) =>
        outcome = "InsufficientKeyMaterial"


(***************************************************************************)
(* brute_force_decrypt(encrypted_cubes, key_pool, max_attempts_per_cube).  *)
(* For each cube it makes min(max_attempts_per_cube, len(key_pool))        *)
(* attempts; an attempt draws an index with random.choice from the pool    *)
(* indices not yet in tested_indices, decrypts a copy of the cube with     *)
(* that key, joins the cells into decrypted_string and scores it by        *)
(* readable_chars / len(decrypted_string).  The function has no try        *)
(* statement: the division raises ZeroDivisionError for an empty string    *)
(* and the exception ends the call.  A score is kept as the pair           *)
(* <<readable_chars, len>> and two scores are compared as fractions.       *)
(***************************************************************************)
MaxPool == 3

BruteKeys == << << "L1" >>, << "U1'", "R1" >>, << >>, << "R1'" >>, << "L1", "L1" >> >>

BrutePool(size) == [ k \in 1..size |-> BruteKeys[((k - 1) % Len(BruteKeys)) + 1] ]

\* Cubes handed to the search: every cell set and distinct, a pattern with
\* a symbol that does not count as readable, and Cube(order) without data.
BruteTexts(n) ==
    { SubSeq(FillerChars, 1, CellCount(n)),
      [ i \in 1..CellCount(n) |-> IF i % 4 = 0 THEN "b" ELSE "#" ],
      << >> }

None == << >>
Some(x) == << x >>

\* attempts = min(max_attempts_per_cube, len(key_pool))
Attempts(max_attempts, pool) == IF max_attempts < Len(pool) THEN max_attempts ELSE Len(pool)

\* Variant of Available that offers every pool index at every attempt.
Available_with_replacement(pool, tested_indices) == 0..(Len(pool) - 1)

\* available_indices = [idx for idx in range(len(key_pool)) if idx not in tested_indices]
Available(pool, tested_indices) ==
    { idx \in 0..(Len(pool) - 1) : idx \notin tested_indices }

\* The sequences of indices that the attempts of one cube can draw.
TrialOrders(pool, attempts) ==
    LET orders[k \in 0..attempts] ==
            IF k <= 0 THEN { << >> }
            ELSE UNION { { Append(s, idx) : idx \in Available(pool, Range(s)) } :
                           s \in orders[k - 1] }
    IN  IF attempts <= 0 THEN { << >> } ELSE orders[attempts]

\* c.isalnum() or c in ' .,!?;:\'"-'
Readable(c) ==
    \/ c \in Range(FillerChars)
    \/ c \in { " ", ".", ",", "!", "?", ";", ":", "'", "\"", "-" }

\* Variant of readable_chars that counts only the readable characters at
\* the end of the string, after the last one that is not readable.
readable_chars_trailing(decrypted_string) ==
    Cardinality({ i \in 1..Len(decrypted_string) :
                    \A j \in i..Len(decrypted_string) :
                        Readable(SubSeq(decrypted_string, j, j)) })

readable_chars(decrypted_string) ==
    Cardinality({ i \in 1..Len(decrypted_string) :
                    Readable(SubSeq(decrypted_string, i, i)) })

ScoreLess(a, b) == a[1] * b[2] < b[1] * a[2]

\* Variant of InsertSorted that puts a candidate before those of equal score.
InsertSorted_before_equal(sorted, x) ==
    LET before == { p \in 1..Len(sorted) :
                      \A q \in 1..p : ScoreLess(x.readability_score, sorted[q].readability_score) }
        cut == Cardinality(before)
    IN  SubSeq(sorted, 1, cut) \o << x >> \o SubSeq(sorted, cut + 1, Len(sorted))

\* One step of the stable descending sort: x goes after every entry whose
\* score is not smaller than its own.
InsertSorted(sorted, x) ==
    LET before == { p \in 1..Len(sorted) :
                      \A q \in 1..p : ~ScoreLess(sorted[q].readability_score, x.readability_score) }
        cut == Cardinality(before)
    IN  SubSeq(sorted, 1, cut) \o << x >> \o SubSeq(sorted, cut + 1, Len(sorted))

\* cube_results.sort(key=lambda x: x['readability_score'], reverse=True)
SortByScore(cube_results) ==
    LET sorted[k \in 0..Len(cube_results)] ==
            IF k = 0 THEN << >> ELSE InsertSorted(sorted[k - 1], cube_results[k])
    IN  sorted[Len(cube_results)]

\* cube_results.append({...}) for one attempt, or the exception raised by
\* the division when decrypted_string is empty.
AppendCandidate(prev_results, h, key_index, test_moves, decrypted_string) ==
    IF Len(decrypted_string) = 0
    THEN [ heap |-> h, cube_results |-> prev_results, raised |-> "ZeroDivisionError" ]
    ELSE [ heap |-> h,
           cube_results |-> Append(prev_results,
               [ key_index |-> key_index,
                 decrypted_text |-> decrypted_string,
                 readability_score |->
                     << readable_chars(decrypted_string), Len(decrypted_string) >>,
                 key_moves |-> test_moves ]),
           raised |-> "" ]

\* decrypted_string = cubeToString(decrypted_cube), then the scoring.
ScoreCandidate(prev_results, r, key_index, test_moves) ==
    AppendCandidate(prev_results, r.heap, key_index, test_moves, cubeToString(r.heap[r.ref]))

\* One attempt: the body of the loop over range(attempts) for the index drawn.
TryKey(d, prev, ref, pool, key_index) ==
    IF prev.raised # "" THEN prev
    ELSE ScoreCandidate(prev.cube_results,
                        decryptCube(d, prev.heap, ref, pool[key_index + 1]),
                        key_index, pool[key_index + 1])

\* The attempts of one cube in the order drawn; raised is set by the first
\* attempt whose score cannot be computed, and nothing is done after it.
TryKeys(d, h, ref, pool, drawn) ==
    LET try[k \in 0..Len(drawn)] ==
            IF k = 0 THEN [ heap |-> h, cube_results |-> << >>, raised |-> "" ]
            ELSE TryKey(d, try[k - 1], ref, pool, drawn[k])
    IN  try[Len(drawn)]

\* results.append({...}) for one cube, from its sorted candidates.
AppendResult(prev, h, i, cube_results) ==
    [ heap |-> h,
      results |-> Append(prev.results,
          [ cube_index |-> i,
            attempts |-> Len(cube_results),
            best_result |-> IF cube_results # << >> THEN Some(cube_results[1]) ELSE None,
            all_results |-> cube_results ]),
      raised |-> "" ]

\* The body of the loop over the cubes, given the attempts t of cube i.
RankCube(prev, t, i) ==
    IF t.raised # ""
    THEN [ prev EXCEPT !.heap = t.heap, !.raised = t.raised ]
    ELSE AppendResult(prev, t.heap, i, SortByScore(t.cube_results))

SearchCube(d, prev, ref, pool, drawn, i) ==
    IF prev.raised # "" THEN prev
    ELSE RankCube(prev, TryKeys(d, prev.heap, ref, pool, drawn), i)

\* The whole call; choices[i] is what random.choice returned for cube i.
brute_force_decrypt(d, h, cube_list, pool, max_attempts, choices) ==
    LET loop[i \in 0..Len(cube_list)] ==
            IF i = 0 THEN [ heap |-> h, results |-> << >>, raised |-> "" ]
            ELSE SearchCube(d, loop[i - 1], cube_list[i], pool, choices[i], i - 1)
    IN  loop[Len(cube_list)]

InitBrute ==
    /\ pc = "start"
    /\ order \in Orders
    /\ moveDict = InitialMoveDict
    /\ \E num_cubes \in 0..2 :
         \E texts \in [1..num_cubes -> BruteTexts(order)] :
            /\ heap = [ i \in 1..num_cubes |-> NewCube(order, texts[i]) ]
            /\ encrypted_cubes = [ i \in 1..num_cubes |-> i ]
    /\ \E size \in 0..MaxPool : key_pool = BrutePool(size)
    /\ max_attempts_per_cube \in 0..(MaxPool + 1)
    /\ results = << >>
    /\ cubes = << >> /\ selection_method = "none" /\ used_key_indices = << >>
    /\ CipherIdle
    /\ hist = << >> /\ snaps = << >>
    /\ LinearIdle
    /\ EncoderIdle /\ MainIdle /\ TextIdle

\* The copies made by decryptCube are dropped when the call ends; hist keeps
\* the indices drawn for each cube, in the order of the attempts.
BruteForceDecrypt ==
    /\ pc = "ready"
    /\ LET attempts == Attempts(max_attempts_per_cube, key_pool)
       IN  \E choices \in [ 1..Len(encrypted_cubes) -> TrialOrders(key_pool, attempts) ] :
             \E r \in { brute_force_decrypt(moveDict, heap, encrypted_cubes, key_pool,
                                            max_attempts_per_cube, choices) } :
                /\ heap' = SubSeq(r.heap, 1, Len(heap))
                /\ results' = IF r.raised = "" THEN r.results ELSE << >>
                /\ outcome' = IF r.raised = "" THEN "returned" ELSE r.raised
                /\ hist' = choices
    /\ pc' = "searched"
    /\ UNCHANGED <<order, moveDict, cube, encryptedCube, decryptedCube, key,
                   reverseMoves, snaps, linearVars, poolVars,
                   encoderVars, max_attempts_per_cube, mainVars, textVars>>

NextBrute == GenerateMoves \/ BruteForceDecrypt

SpecBrute == InitBrute /\ [][NextBrute]_vars

KeyIndices(all_results) == [ k \in 1..Len(all_results) |-> all_results[k].key_index ]

\* C13: for every encrypted cube the search records exactly
\* min(max_attempts_per_cube, P) candidates, P the pool size; their key
\* indices lie in 0..P-1 and no index occurs twice for the same cube.
C13_DistinctAttempts ==
    (pc = "searched" /\ outcome = "returned") =>
        /\ Len(results) = Len(encrypted_cubes)
        /\ \A i \in 1..Len(results) :
              LET tried == KeyIndices(results[i].all_results)
                  P == Len(key_pool)
              IN  /\ Len(tried) = (IF max_attempts_per_cube < P
                                   THEN max_attempts_per_cube ELSE P)
                  /\ results[i].attempts = Len(tried)
                  /\ \A k \in 1..Len(tried) : tried[k] >= 0 /\ tried[k] < P
                  /\ \A k, l \in 1..Len(tried) : k # l => tried[k] # tried[l]

C13_Witness ==
    /\ pc = "searched" /\ outcome = "returned"
    /\ Len(encrypted_cubes) = 2
    /\ Len(key_pool) = 3 /\ max_attempts_per_cube = 2
    /\ KeyIndices(results[1].all_results) = << 2, 0 >>
    /\ KeyIndices(results[2].all_results) = << 1, 2 >>

\* Place of a key index among the indices drawn for cube i.
TrialNumber(i, key_index) == CHOOSE k \in 1..Len(hist[i]) : hist[i][k] = key_index

\* C14: for every cube all_results is in non-increasing order of score,
\* candidates of equal score stand in the order in which they were tried,
\* and best_result is the first entry, or None when nothing was tried.
C14_RankedResults ==
    (pc = "searched" /\ outcome = "returned") =>
        \A i \in 1..Len(results) :
            LET all == results[i].all_results
            IN  /\ \A k \in 1..(Len(all) - 1) :
                      ~ScoreLess(all[k].readability_score, all[k + 1].readability_score)
                /\ \A k, l \in 1..Len(all) :
                      ( /\ k < l
                        /\ ~ScoreLess(all[k].readability_score, all[l].readability_score)
                        /\ ~ScoreLess(all[l].readability_score, all[k].readability_score) )
                          => TrialNumber(i, all[k].key_index) < TrialNumber(i, all[l].key_index)
                /\ { all[k].key_index : k \in 1..Len(all) } = Range(hist[i])
                /\ results[i].best_result =
                      (IF all = << >> THEN None ELSE Some(all[1]))

C14_Witness ==
    /\ pc = "searched" /\ outcome = "returned"
    /\ Len(encrypted_cubes) = 2 /\ Len(key_pool) = 3
    /\ hist = << << 2, 0, 1 >>, << 1, 0, 2 >> >>
    /\ KeyIndices(results[1].all_results) = << 2, 0, 1 >>
    /\ results[1].best_result = Some(results[1].all_results[1])
    /\ results[2].best_result[1].key_index = 1
    /\ results[1].all_results[1].readability_score # results[2].all_results[1].readability_score

\* C15: a candidate whose decoding or scoring fails gets the score zero and
\* the search goes on: the call still returns one result per cube.
C15_FailureScoresZero ==
    pc = "searched" =>
        /\ outcome = "returned"
        /\ Len(results) = Len(encrypted_cubes)

\* C28: all candidates tried for one cube have the same readability score,
\* whichever keys were drawn; all_results therefore lists them in the order
\* of the trials and best_result is the candidate of the key tried first.
C28_EqualScores ==
    (pc = "searched" /\ outcome = "returned") =>
        \A i \in 1..Len(results) :
            LET all == results[i].all_results
            IN  /\ \A k, l \in 1..Len(all) :
                      /\ all[k].readability_score = all[l].readability_score
                      /\ Len(all[k].decrypted_text) = CellCount(order)
                /\ KeyIndices(all) = hist[i]
                /\ hist[i] # << >> =>
                      /\ results[i].best_result # None
                      /\ results[i].best_result[1].key_index = hist[i][1]
                      /\ results[i].best_result[1].key_moves = key_pool[hist[i][1] + 1]

C28_Witness ==
    /\ pc = "searched" /\ outcome = "returned"
    /\ Len(encrypted_cubes) = 1 /\ Len(key_pool) = 3
    /\ hist = << << 1, 2, 0 >> >>
    /\ KeyIndices(results[1].all_results) = << 1, 2, 0 >>
    /\ results[1].all_results[1].decrypted_text # results[1].all_results[2].decrypted_text
    /\ results[1].all_results[1].readability_score[1] > 0
    /\ results[1].all_results[1].readability_score[1] < CellCount(order)
    /\ results[1].all_results[3].readability_score = results[1].all_results[1].readability_score
    /\ results[1].best_result[1].key_index = 1

====
